---- MODULE Spec2Model ----
(***************************************************************************)
(* Model of the review scraper of reviews/scrape_reviews.py: the scroll    *)
(* loop of scrape_place_reviews (lines 574-843), one session for one       *)
(* place.  The browser page is the environment: the identifiers the feed   *)
(* shows, the container the locator finds, the scroll position and extent  *)
(* a read returns, and which Playwright calls raise are chosen             *)
(* nondeterministically at the call.                                       *)
(*                                                                         *)
(* Further specifications model reviews/main_reviews.py: PoolSpec the      *)
(* worker threads (run_worker, process_one and the browser session of one  *)
(* attempt).  Each specification moves its own variables and leaves the    *)
(* others at rest.                                                         *)
(***************************************************************************)
EXTENDS Integers, Sequences, FiniteSets, TLC

\* ---------------------------------------------------------------- bounds
\* Review identifiers the feed can expose: 1..MaxIds.
MaxIds == 4
\* Largest UI-advertised total drawn in Init (the code accepts 1..200000).
MaxUiTotal == 2
\* Largest MAX_REVIEWS_PER_PLACE drawn in Init (0 = unbounded).
MaxCap == 1

\* ------------------------------------------------- configuration (os.getenv)
\* Read from the environment at import (lines 41-53); the model runs the loop
\* under small values of the round cap, the lag, the plateau and the budgets.
SCROLL_IDLE_ROUNDS == 2
MAX_SCROLL_ROUNDS == 5
UI_LAG_TOLERANCE == 1
MIN_PLATEAU_COUNT == 2
PLACE_HARD_TIMEOUT_SEC == 2
NO_PROGRESS_MAX_SECS == 1

\* Python's None, for ui_total and for a container marker that was not read.
None == -1
\* A local that was never assigned (sc_top, sc_h before the first read).
Unbound == -2

Ids == 1..MaxIds
\* DOM elements the locator can return; an element's marker (__guid) is the
\* element's number, since the marker is set once per element (||=).
Elems == {1, 2}
\* (scrollTop, scrollHeight) readings of a container.
ScrollStates == {<<0, 1>>, <<1, 1>>}
\* What _find_reviews_container(page) followed by _is_scrollable and the
\* marker evaluation yields: <<0, FALSE>> when no scrollable container is
\* found, else <<element, marker evaluation succeeded>>.
NoCand == <<0, FALSE>>
DomCands == {NoCand} \cup (Elems \X BOOLEAN)

Max(a, b) == IF a >= b THEN a ELSE b
Min(a, b) == IF a <= b THEN a ELSE b
MinOf(S) == CHOOSE x \in S : \A y \in S : x <= y
\* The k smallest elements of S.
Smallest(S, k) == {x \in S : Cardinality({y \in S : y < x}) < k}

VARIABLES
  pc,                  \* position in scrape_place_reviews
  ui_total,            \* UI-advertised total or None
  max_reviews,         \* MAX_REVIEWS_PER_PLACE of this run
  rows,                \* Review IDs of the accumulated rows, in order
  seen_ids,
  idle, prev_total, rounds, prev_scroll_state, no_new_rounds, rebounce_done,
  container,           \* element of the active container
  last_container_guid, \* its marker, or None
  curr_ids,            \* identifiers the scan of this iteration listed
  new_ids,             \* identifiers of this scan still to be extracted
  before,              \* (before_top, before_sh)
  sc,                  \* (sc_top, sc_h)
  no_growth, no_new_ids,
  cand,                \* what the locator returned to the rebind step
  now,                 \* time.monotonic() - start_ts
  last_progress_ts,
  outcome,             \* "running", "returned" or "raised"
  returned,            \* the list scrape_place_reviews handed back
  exposed,             \* history: every identifier a scan has listed
  stalled_rounds       \* history: consecutive stalled iterations, see Stalled

\* --------------------------------------------- worker threads (PoolSpec)
VARIABLES
  wpc,            \* per worker: position in run_worker / process_one / session
  job,            \* per worker: index in its chunk of the entity being processed
  attempt,        \* per worker: attempt of the for loop of process_one
  created,        \* per worker: which of browser, context, page exist
  close_called,   \* per worker: on which of them close() was called
  close_failed,   \* per worker: whose close() raised
  status,         \* per worker: "ok", or "exc" while an exception propagates
  got,            \* per worker: number of rows the session is returning
  collected_rows, \* per worker: len(collected_rows) in process_one
  last_result,    \* per worker: "none", "raised" or "returned" (last attempt)
  slept,          \* per worker: the last time.sleep, in tenths of a second
  lock,           \* the worker holding the lock of main (line 226), 0 if free
  sink            \* the rows written to the CSV, each the entity it belongs to

poolVars == <<wpc, job, attempt, created, close_called, close_failed, status, got,
              collected_rows, last_result, slept, lock, sink>>

\* Worker threads modelled; worker w runs run_worker(w - 1, chunks[w - 1], ...).
Workers == {1, 2}
\* Number of input places (tasks) distributed over the workers.
NumPlaces == 3
\* Largest number of rows one session returns.
MaxRows == 2
\* Line 43 of scrape_reviews.py, read from the environment.
MAX_RETRIES_PER_PLACE == 2

\* No worker thread exists.
PoolIdle ==
  /\ wpc = [w \in Workers |-> "idle"]
  /\ job = [w \in Workers |-> 0]
  /\ attempt = [w \in Workers |-> 0]
  /\ created = [w \in Workers |-> {}]
  /\ close_called = [w \in Workers |-> {}]
  /\ close_failed = [w \in Workers |-> {}]
  /\ status = [w \in Workers |-> "ok"]
  /\ got = [w \in Workers |-> 0]
  /\ collected_rows = [w \in Workers |-> 0]
  /\ last_result = [w \in Workers |-> "none"]
  /\ slept = [w \in Workers |-> 0]
  /\ lock = 0
  /\ sink = <<>>

\* ----------------------------------------------------------------------
\* State of main (main_reviews.py 207-273).
VARIABLES
  mpc,          \* position of main
  places_n,     \* len(places), line 216
  threads,      \* args.threads
  proxies_n,    \* len(proxies), line 221
  need_header,  \* line 230
  workers_n,    \* workers, lines 240-247; 0 before it is computed
  started,      \* <<w_id, proxy>> of every run_worker handed to the executor;
                \* proxy is the index into proxies, None without proxies
  out_f,        \* the sink: "none", "open" or "closed"
  header,       \* the header line has been written to the sink
  flushed,      \* out_f.flush() of line 270 has run
  exc,          \* the exception in flight in main, "none" if there is none
  done          \* line 273 has printed the completion report

mainVars == <<mpc, places_n, threads, proxies_n, need_header, workers_n, started,
              out_f, header, flushed, exc, done>>

\* Largest --threads and largest number of proxy lines tried.
MaxThreads == 3
MaxProxies == 3

\* main is not running.
MainIdle ==
  /\ mpc = "idle"
  /\ places_n = 0 /\ threads = 1 /\ proxies_n = 0 /\ need_header = FALSE
  /\ workers_n = 0 /\ started = {}
  /\ out_f = "none" /\ header = FALSE /\ flushed = FALSE
  /\ exc = "none" /\ done = FALSE

\* ----------------------------------------------------------------------
\* State of load_places (main_reviews.py 54-109) and of the category text
\* on its way from process_one (161-169) back into _parse_categories (62-80).
\* A string is a sequence of characters.
VARIABLES
  lpc,          \* position of load_places
  row,          \* r, the row the reader gave last (column -> text)
  nread,        \* number of rows read
  places,       \* places, the list being built
  cpc,          \* position of the category round trip
  cat_in,       \* the category list handed to json.dumps
  cat_text,     \* the text written to the Categories column
  cat_out       \* what _parse_categories makes of that text

loadVars == <<lpc, row, nread, places>>
catVars == <<cpc, cat_in, cat_text, cat_out>>

\* Rows read by one call of load_places; strings per category list and
\* characters per category string.
MaxCsvRows == 2
MaxListLen == 2
MaxStrLen == 2

\* r.get(column) of a column the file does not have (Python's None).
Absent == <<"None">>

\* The columns load_places looks up (84-91, identifier, name and category
\* list), and "Place Name".
Columns == {"place_id", "Place ID", "name", "Place", "Place Name", "Categories"}

\* A value of type Optional[Tuple[str, ...]].
NoCategories == [is_none |-> TRUE, items |-> <<>>]
SomeCategories(t) == [is_none |-> FALSE, items |-> t]

\* load_places is not running.
LoadIdle ==
  /\ lpc = "idle"
  /\ row = [c \in Columns |-> Absent]
  /\ nread = 0
  /\ places = <<>>

\* No category list is on its way.
CatIdle ==
  /\ cpc = "idle"
  /\ cat_in = <<>> /\ cat_text = <<>> /\ cat_out = NoCategories

\* ----------------------------------------------------------------------
\* State of one call of _rel_to_iso (scrape_reviews.py 77-91).
VARIABLES
  dpc,          \* position of the call
  raw,          \* raw, the text of the date element, as its sequence of words
  dnow,         \* now
  dres          \* what the call gave: a timestamp, None, or an exception

dateVars == <<dpc, raw, dnow, dres>>

\* Words per date text.
MaxWords == 3

\* _rel_to_iso returned None.
NoDate == [kind |-> "none", minutes |-> 0, months |-> 0]

\* _rel_to_iso is not running.
DateIdle ==
  /\ dpc = "idle"
  /\ raw = <<>>
  /\ dnow = [minutes |-> 0, year |-> 1, month |-> 1]
  /\ dres = NoDate

\* ----------------------------------------------------------------------
\* The start of a session, scrape_place_reviews lines 472-568: navigation,
\* opening of the review surface and the first container lookup.
VARIABLES
  opc,           \* position: "goto", "open", "visible", "find", "refind",
                 \* "loop" (line 574 reached) or "raised"
  nav_attempt,   \* attempt of the for loop at line 474
  gotos,         \* the outcome of every page.goto call made, in order
  last_err,      \* last_err, Absent while None
  nav_slept,     \* tenths of a second slept at line 487
  fallback,      \* FALLBACK_TO_SIDEPANEL
  open_attempt,  \* attempt of the for loop at line 185
  clicks,        \* calls of _click_all_reviews_if_present made
  opened,        \* what _force_all_reviews_dialog returned
  lookups,       \* calls of _find_reviews_container made at 563-566
  found,         \* container of lines 563-567, None when nothing was found
  oexc           \* the error raised out of the session start

openVars == <<opc, nav_attempt, gotos, last_err, nav_slept, fallback,
              open_attempt, clicks, opened, lookups, found, oexc>>

\* No error raised.
NotRaised == [type |-> "none", msg |-> <<>>]

\* The session start is not running (the other specifications).
OpenIdle ==
  /\ opc = "idle"
  /\ nav_attempt = 0
  /\ gotos = <<>>
  /\ last_err = Absent
  /\ nav_slept = 0
  /\ fallback = FALSE
  /\ open_attempt = 0
  /\ clicks = 0
  /\ opened = FALSE
  /\ lookups = 0
  /\ found = None
  /\ oexc = NotRaised

\* ----------------------------------------------------------------------
\* The extraction of one new card, the body of the for loop at
\* scrape_place_reviews lines 627-750.
VARIABLES
  kpc,    \* position: "card" before the body, "done" after it
  card,   \* what the page answers to each query on the card
  crid,   \* rid, the identifier being extracted
  crows,  \* rows
  cseen   \* seen_ids

cardVars == <<kpc, card, crid, crows, cseen>>

\* No card is being extracted (the other specifications).
CardIdle ==
  /\ kpc = "idle"
  /\ card = <<>>
  /\ crid = ""
  /\ crows = <<>>
  /\ cseen = {}

\* ----------------------------------------------------------------------
\* One call of _find_reviews_container (scrape_reviews.py 218-303) on a
\* page.
VARIABLES
  fpc,      \* position: "first", "ancestor", "largest", "fallback", "done"
  dom,      \* the elements of the page, in document order
  parent,   \* parent of each element, 0 for the document
  first_h,  \* first_h, the handle of the first review card, 0 for None
  picked,   \* the element returned, 0 for None
  via       \* the stage that returned it

findVars == <<fpc, dom, parent, first_h, picked, via>>

\* No container is being located (the other specifications).
FindIdle ==
  /\ fpc = "idle"
  /\ dom = <<>>
  /\ parent = <<>>
  /\ first_h = 0
  /\ picked = 0
  /\ via = "none"

\* The variables the scroll-loop specification leaves alone.
outsideSession == <<poolVars, mainVars, loadVars, catVars, dateVars, openVars, cardVars, findVars>>

cfgVars == <<ui_total, max_reviews>>
loopVars == <<rows, seen_ids, idle, prev_total, rounds, prev_scroll_state,
              no_new_rounds, rebounce_done, container, last_container_guid>>
iterVars == <<curr_ids, new_ids, before, sc, no_growth, no_new_ids, cand>>
timeVars == <<now, last_progress_ts>>
histVars == <<exposed, stalled_rounds>>
sessionVars == <<pc, cfgVars, loopVars, iterVars, timeVars, outcome, returned, histVars>>
vars == <<sessionVars, outsideSession>>

\* total = len(seen_ids) (line 774) and before_seen = len(seen_ids) (756):
\* seen_ids does not change between the end of the extraction and line 818.
total == Cardinality(seen_ids)

\* A _target_reached that tests the record cap only, not the advertised total.
TargetReachedCapOnly(seen, ui, cap) == cap # 0 /\ Cardinality(seen) >= cap

\* _target_reached(), lines 587-590.
TargetReached(seen, ui, cap) ==
  \/ cap # 0 /\ Cardinality(seen) >= cap
  \/ ui # None /\ Cardinality(seen) >= Max(0, ui - UI_LAG_TOLERANCE)

\* A while condition without the test of idle.
LoopConditionNoIdle ==
  /\ rounds < MAX_SCROLL_ROUNDS
  /\ ~TargetReached(seen_ids, ui_total, max_reviews)
  /\ now < PLACE_HARD_TIMEOUT_SEC
  /\ (now - last_progress_ts) < NO_PROGRESS_MAX_SECS

\* The while condition, lines 592-598.
LoopCondition ==
  /\ idle < SCROLL_IDLE_ROUNDS
  /\ rounds < MAX_SCROLL_ROUNDS
  /\ ~TargetReached(seen_ids, ui_total, max_reviews)
  /\ now < PLACE_HARD_TIMEOUT_SEC
  /\ (now - last_progress_ts) < NO_PROGRESS_MAX_SECS

\* State at line 592, before the first evaluation of the while condition
\* (lines 395-402, 557, 575-585).
Init ==
  /\ pc = "while"
  /\ ui_total \in {None} \cup (1..MaxUiTotal)
  /\ max_reviews \in 0..MaxCap
  /\ rows = <<>>
  /\ seen_ids = {}
  /\ idle = 0 /\ prev_total = 0 /\ rounds = 0
  /\ prev_scroll_state = <<-1, -1>>
  /\ no_new_rounds = 0
  /\ rebounce_done = FALSE
  /\ container = 1
  /\ last_container_guid \in {1, None}
  /\ curr_ids = {}
  /\ new_ids = {}
  /\ before = <<-1, -1>>
  /\ sc = <<Unbound, Unbound>>
  /\ no_growth = FALSE /\ no_new_ids = FALSE
  /\ cand = NoCand
  /\ now = 0 /\ last_progress_ts = 0
  /\ outcome = "running"
  /\ returned = <<>>
  /\ exposed = {}
  /\ stalled_rounds = 0
  /\ PoolIdle
  /\ MainIdle
  /\ LoadIdle
  /\ CatIdle
  /\ DateIdle
  /\ OpenIdle
  /\ CardIdle
  /\ FindIdle

\* The locals of one iteration at their initial values.  Each of them is
\* assigned before it is read in the next iteration, so a step after which
\* they are dead puts them back; sc_top / sc_h are not among them, line 784
\* can read a stale one.
IterLocalsCleared ==
  /\ curr_ids' = {}
  /\ new_ids' = {}
  /\ before' = <<-1, -1>>
  /\ no_growth' = FALSE /\ no_new_ids' = FALSE
  /\ cand' = NoCand

\* The function's frame is gone: every local of the loop but rows (the list
\* being handed back, or lost) and seen_ids is at its initial value.
FrameDropped ==
  /\ IterLocalsCleared
  /\ idle' = 0 /\ prev_total' = 0 /\ rounds' = 0
  /\ prev_scroll_state' = <<-1, -1>>
  /\ no_new_rounds' = 0
  /\ rebounce_done' = FALSE
  /\ container' = 1
  /\ last_container_guid' = None
  /\ sc' = <<Unbound, Unbound>>
  /\ stalled_rounds' = 0

\* time.monotonic() advances while the session runs.  The loop reads the
\* clock in the while condition (596-597), when a row is appended (743) and
\* at the end of the iteration (822-825); time that passes anywhere else
\* is time that has passed at the next of these reads.
DoTick ==
  /\ pc \in {"while", "extract", "advance"}
  /\ now < PLACE_HARD_TIMEOUT_SEC
  /\ now' = now + 1
  /\ UNCHANGED <<pc, cfgVars, loopVars, iterVars, last_progress_ts, outcome, returned,
                 histVars>>

Tick == DoTick /\ UNCHANGED outsideSession

\* Lines 592-598: enter the next iteration or leave the loop.
DoWhileTest ==
  /\ pc = "while"
  /\ pc' = IF LoopCondition THEN "scan" ELSE "exit"
  /\ UNCHANGED <<cfgVars, loopVars, iterVars, timeVars, outcome, returned, histVars>>

WhileTest == DoWhileTest /\ UNCHANGED outsideSession

\* A line 605 without its filter: every listed identifier counts as new.
NewIdsUnfiltered(curr, seen) == curr

\* Line 605: the identifiers of the scan that are not yet seen.
NewIds(curr, seen) == curr \ seen

\* What _list_visible_review_ids can return (lines 322-342): the feed shows
\* again none or all of the identifiers already seen, and any number of
\* unseen ones.  The code only tests an identifier for membership in
\* seen_ids, so the unseen identifiers are interchangeable and a scan that
\* shows k of them shows the k smallest.
VisibleIds(seen) ==
  { reshown \cup Smallest(Ids \ seen, k) :
      reshown \in {{}, seen}, k \in 0..Cardinality(Ids \ seen) }

\* Lines 604-609: list the visible identifiers, keep the unseen ones.
DoScan ==
  /\ pc = "scan"
  /\ curr_ids' \in VisibleIds(seen_ids)
  /\ new_ids' = NewIds(curr_ids', seen_ids)
  /\ no_new_rounds' = IF new_ids' # {} THEN 0 ELSE no_new_rounds + 1
  /\ exposed' = exposed \cup curr_ids'
  /\ pc' = "rebounce"
  /\ UNCHANGED <<cfgVars, rows, seen_ids, idle, prev_total, rounds,
                 prev_scroll_state, rebounce_done, container, last_container_guid,
                 before, sc, no_growth, no_new_ids, cand, timeVars, outcome, returned,
                 stalled_rounds>>

Scan == DoScan /\ UNCHANGED outsideSession

\* The body shared by both rebounces (lines 614-624 and 807-816):
\* _click_all_reviews_if_present, then the locator; on a scrollable candidate
\* switch to it, reset idle and the remembered scroll state.
RebounceBody ==
  \E clicked \in BOOLEAN, c \in DomCands :
    IF clicked /\ c # NoCand
      THEN /\ container' = c[1]
           /\ last_container_guid' = IF c[2] THEN c[1] ELSE last_container_guid
           /\ idle' = 0
           /\ prev_scroll_state' = <<-1, -1>>
           /\ rebounce_done' = TRUE
           /\ stalled_rounds' = 0
      ELSE UNCHANGED <<container, last_container_guid, idle, prev_scroll_state,
                       rebounce_done, stalled_rounds>>

\* Lines 611-624: first rebounce.  curr_ids is not read after line 605.
DoRebounce ==
  /\ pc = "rebounce"
  /\ IF ~rebounce_done /\ rounds >= 2 /\ Cardinality(seen_ids) < MIN_PLATEAU_COUNT
       THEN RebounceBody
       ELSE UNCHANGED <<container, last_container_guid, idle, prev_scroll_state,
                        rebounce_done, stalled_rounds>>
  /\ pc' = IF new_ids = {} THEN "scroll" ELSE "extract"
  /\ curr_ids' = {}
  /\ UNCHANGED <<cfgVars, rows, seen_ids, prev_total, rounds, no_new_rounds,
                 new_ids, before, sc, no_growth, no_new_ids, cand,
                 timeVars, outcome, returned, exposed>>

Rebounce == DoRebounce /\ UNCHANGED outsideSession

\* A for loop without the break of lines 745-746.
CapBreakNever(seen, cap) == FALSE

\* Lines 745-746: the for loop over new_ids stops at the record cap.
CapBreak(seen, cap) == cap # 0 /\ Cardinality(seen) >= cap

\* An extraction that marks the identifier seen without appending its row.
ExtractOkNoRow(rid) ==
  /\ rows' = rows
  /\ seen_ids' = seen_ids \cup {rid}
  /\ last_progress_ts' = now
  /\ new_ids' = new_ids \ {rid}

\* An extraction that replaces seen_ids by the identifier instead of adding it.
ExtractOkForgetting(rid) ==
  /\ rows' = Append(rows, rid)
  /\ seen_ids' = {rid}
  /\ last_progress_ts' = now
  /\ new_ids' = new_ids \ {rid}

\* An extraction that appends the row without marking the identifier seen.
ExtractOkUnmarked(rid) ==
  /\ rows' = Append(rows, rid)
  /\ seen_ids' = seen_ids
  /\ last_progress_ts' = now
  /\ new_ids' = new_ids \ {rid}

\* Lines 627-743 for one identifier: the row is appended, the identifier
\* marked seen and the progress time stamped.
ExtractOk(rid) ==
  /\ rows' = Append(rows, rid)
  /\ seen_ids' = seen_ids \cup {rid}
  /\ last_progress_ts' = now
  /\ new_ids' = new_ids \ {rid}

\* Line 627, one identifier of the list per step, in the order of the list
\* (the identifiers of one list are all unseen and interchangeable, the
\* smallest stands for the first).  Every call in the body that can raise has
\* its own try (lines 630-725), so the handler of lines 747-750 is never
\* entered and each identifier of the list gets its row.  The for loop ends
\* when the list is exhausted or at the cap break, which leaves the rest of
\* the list unextracted.
DoExtract ==
  /\ pc = "extract"
  /\ ExtractOk(MinOf(new_ids))
  /\ pc' = IF new_ids' = {} \/ CapBreak(seen_ids', max_reviews)
            THEN "scroll" ELSE "extract"
  /\ UNCHANGED <<cfgVars, idle, prev_total, rounds, prev_scroll_state,
                 no_new_rounds, rebounce_done, container, last_container_guid,
                 curr_ids, before, sc, no_growth, no_new_ids, cand, now, outcome,
                 returned, histVars>>

Extract == DoExtract /\ UNCHANGED outsideSession

\* An idle update that counts every iteration without new identifiers,
\* whether or not the scroll state changed.
IdleUpdateIgnoringGrowth(ui, tot, nonew, nogrowth, old) ==
  IF ui = None /\ tot < MIN_PLATEAU_COUNT
    THEN 0
    ELSE IF nonew THEN old + 1 ELSE 0

\* An idle update that never resets the counter outside the warm-up.
IdleUpdateKeeping(ui, tot, nonew, nogrowth, old) ==
  IF ui = None /\ tot < MIN_PLATEAU_COUNT
    THEN 0
    ELSE IF nonew /\ nogrowth THEN old + 1 ELSE old

\* An idle update without the warm-up rule of lines 778-779.
IdleUpdateNoWarmUp(ui, tot, nonew, nogrowth, old) ==
  IF nonew /\ nogrowth THEN old + 1 ELSE 0

\* Lines 778-781: the new value of idle.
IdleUpdate(ui, tot, nonew, nogrowth, old) ==
  IF ui = None /\ tot < MIN_PLATEAU_COUNT
    THEN 0
    ELSE IF nonew /\ nogrowth THEN old + 1 ELSE 0

\* Lines 752-781, when _scroll_step returns: read the scroll state, scroll,
\* read it again, compare with the state remembered from the previous read
\* and update idle.  A failed first read gives (-1,-1); a failed second read
\* leaves sc_top / sc_h as they were and no_growth False
\* (int(page.evaluate(...)) can fail on either of the two lines 767-768).
\* new_ids is not read after the for loop.
DoScrollStep ==
  /\ pc = "scroll"
  /\ \E b \in ScrollStates \cup {<<-1, -1>>}, after \in {"ok", "top_only", "fail"},
        a \in ScrollStates :
       /\ before' = b
       /\ sc' = CASE after = "ok"       -> a
                  [] after = "top_only" -> <<a[1], sc[2]>>
                  [] OTHER              -> sc
       /\ no_growth' = (after = "ok" /\ a = prev_scroll_state)
       /\ prev_scroll_state' = IF after = "ok" THEN a ELSE prev_scroll_state
  /\ no_new_ids' = (total = prev_total)
  /\ idle' = IdleUpdate(ui_total, total, no_new_ids', no_growth', idle)
  /\ stalled_rounds' = IF no_new_ids' /\ no_growth'
                         THEN Min(stalled_rounds + 1, SCROLL_IDLE_ROUNDS) ELSE 0
  /\ new_ids' = {}
  /\ pc' = "rebind"
  /\ UNCHANGED <<cfgVars, rows, seen_ids, prev_total, rounds, no_new_rounds,
                 rebounce_done, container, last_container_guid, curr_ids, cand,
                 timeVars, outcome, returned, exposed>>

ScrollStep == DoScrollStep /\ UNCHANGED outsideSession

\* Line 360: page.wait_for_timeout(140) in _scroll_step is outside any try, so
\* a closed or crashed page raises out of the loop.
DoScrollRaise ==
  /\ pc = "scroll"
  /\ pc' = "raised"
  /\ IterLocalsCleared
  /\ UNCHANGED <<cfgVars, loopVars, sc, timeVars, outcome, returned, histVars>>

ScrollRaise == DoScrollRaise /\ UNCHANGED outsideSession

\* Line 784: the condition under which the locator is re-invoked.  Python
\* evaluates the second disjunct only when the first is false, and sc_h only
\* when before_top == sc_top (total == before_seen always holds here).
Stalled == no_new_ids /\ no_growth
RebindReadsUnbound ==
  /\ ~Stalled
  /\ \/ sc[1] = Unbound
     \/ before[1] = sc[1] /\ sc[2] = Unbound
RebindCondition ==
  \/ Stalled
  \/ before[1] = sc[1] /\ before[2] = sc[2]

\* Lines 786-791: a scrollable candidate whose marker was read and differs
\* from the remembered one.
ShouldRebind(c, last) ==
  /\ c # NoCand
  /\ c[2]
  /\ c[1] # last

\* Lines 783-798.  before_top / before_sh, no_growth and no_new_ids are not
\* read after line 784.
DoRebind ==
  /\ pc = "rebind"
  /\ ~RebindReadsUnbound
  /\ IF RebindCondition
       THEN \E c \in DomCands :
              /\ cand' = c
              /\ IF ShouldRebind(c, last_container_guid)
                   THEN /\ container' = c[1]
                        /\ last_container_guid' = c[1]
                        /\ idle' = 0
                        /\ prev_scroll_state' = <<-1, -1>>
                        /\ stalled_rounds' = 0
                   ELSE UNCHANGED <<container, last_container_guid, idle,
                                    prev_scroll_state, stalled_rounds>>
       ELSE /\ cand' = NoCand
            /\ UNCHANGED <<container, last_container_guid, idle, prev_scroll_state,
                           stalled_rounds>>
  /\ pc' = "advance"
  /\ before' = <<-1, -1>> /\ no_growth' = FALSE /\ no_new_ids' = FALSE
  /\ UNCHANGED <<cfgVars, rows, seen_ids, prev_total, rounds, no_new_rounds,
                 rebounce_done, curr_ids, new_ids, sc, timeVars, outcome, returned,
                 exposed>>

Rebind == DoRebind /\ UNCHANGED outsideSession

\* Line 784 when the second read never succeeded: sc_top (or sc_h) is read
\* before it was ever assigned, which raises UnboundLocalError.
DoRebindRaise ==
  /\ pc = "rebind"
  /\ RebindReadsUnbound
  /\ pc' = "raised"
  /\ IterLocalsCleared
  /\ UNCHANGED <<cfgVars, loopVars, sc, timeVars, outcome, returned, histVars>>

RebindRaise == DoRebindRaise /\ UNCHANGED outsideSession

\* Lines 822-827: the two budget breaks at the end of the iteration.
BudgetExhausted ==
  \/ now >= PLACE_HARD_TIMEOUT_SEC
  \/ (now - last_progress_ts) >= NO_PROGRESS_MAX_SECS

\* Lines 800-802: the target break.
DoTargetBreak ==
  /\ pc = "advance"
  /\ TargetReached(seen_ids, ui_total, max_reviews)
  /\ pc' = "exit"
  /\ IterLocalsCleared
  /\ UNCHANGED <<cfgVars, loopVars, sc, timeVars, outcome, returned, histVars>>

TargetBreak == DoTargetBreak /\ UNCHANGED outsideSession

\* Lines 804-827: second rebounce, prev_total, rounds and the budget breaks.
DoAdvance ==
  /\ pc = "advance"
  /\ ~TargetReached(seen_ids, ui_total, max_reviews)
  /\ IF ~rebounce_done /\ no_new_rounds >= 3 /\ total < MIN_PLATEAU_COUNT
       THEN RebounceBody
       ELSE UNCHANGED <<container, last_container_guid, idle, prev_scroll_state,
                        rebounce_done, stalled_rounds>>
  /\ prev_total' = total
  /\ rounds' = rounds + 1
  /\ pc' = IF BudgetExhausted THEN "exit" ELSE "while"
  /\ IterLocalsCleared
  /\ UNCHANGED <<cfgVars, rows, seen_ids, no_new_rounds, sc,
                 timeVars, outcome, returned, exposed>>

Advance == DoAdvance /\ UNCHANGED outsideSession

\* Lines 829-843: the loop ended; page, context and browser are closed and
\* rows is returned.
DoReturn ==
  /\ pc = "exit"
  /\ outcome' = "returned"
  /\ returned' = rows
  /\ pc' = "end"
  /\ FrameDropped
  /\ UNCHANGED <<cfgVars, rows, seen_ids, timeVars, exposed>>

Return == DoReturn /\ UNCHANGED outsideSession

\* Lines 832-841 on an exception: the finally block runs and the exception
\* leaves scrape_place_reviews; the caller gets no list
\* (main_reviews.py 144-150: collected_rows stays empty).
DoPropagate ==
  /\ pc = "raised"
  /\ outcome' = "raised"
  /\ pc' = "end"
  /\ FrameDropped
  /\ UNCHANGED <<cfgVars, rows, seen_ids, timeVars, returned, exposed>>

Propagate == DoPropagate /\ UNCHANGED outsideSession

Next ==
  \/ Tick
  \/ WhileTest
  \/ Scan
  \/ Rebounce
  \/ Extract
  \/ ScrollStep
  \/ ScrollRaise
  \/ Rebind
  \/ RebindRaise
  \/ TargetBreak
  \/ Advance
  \/ Return
  \/ Propagate

Spec == Init /\ [][Next]_vars

\* The steps of the loop on the session's own variables.
SessionNext ==
  \/ DoTick
  \/ DoWhileTest
  \/ DoScan
  \/ DoRebounce
  \/ DoExtract
  \/ DoScrollStep
  \/ DoScrollRaise
  \/ DoRebind
  \/ DoRebindRaise
  \/ DoTargetBreak
  \/ DoAdvance
  \/ DoReturn
  \/ DoPropagate

\* The interpreter keeps running the session: a step that can be taken is
\* taken (every Playwright call of the loop returns or raises within its
\* timeout). A step of Next is a step of SessionNext that leaves the other
\* variables alone, so fairness of SessionNext on the session's variables
\* is fairness of Next.
FairSpec == Spec /\ WF_sessionVars(SessionNext)

\* ------------------------------------------------------------- properties
\* of the scroll loop (Spec, FairSpec)

NoDuplicates(s) == \A i, j \in 1..Len(s) : s[i] = s[j] => i = j

\* C1: within one session each identifier is extracted at most once, however
\* often the feed lists it again: neither the accumulated rows nor the list
\* handed back hold two rows with the same Review ID.
C1_NoDuplicateReviewIds == NoDuplicates(rows) /\ NoDuplicates(returned)

\* A scan that lists identifiers already extracted next to new ones.
C1_Witness ==
  /\ pc = "rebounce"
  /\ curr_ids \cap seen_ids # {}
  /\ new_ids # {}
  /\ Len(rows) >= 2

\* The advertised total is known and the seen-count has reached max(0, T - L).
UiTargetReached ==
  ui_total # None /\ Cardinality(seen_ids) >= Max(0, ui_total - UI_LAG_TOLERANCE)

\* The session is past its warm-up (lines 778-779): the advertised total is
\* known or MIN_PLATEAU_COUNT identifiers are seen.
PastWarmUp == ui_total # None \/ total >= MIN_PLATEAU_COUNT

\* The loop was left for no reason but the idle counter.
LeftForIdleOnly ==
  /\ pc = "exit"
  /\ rounds < MAX_SCROLL_ROUNDS
  /\ ~TargetReached(seen_ids, ui_total, max_reviews)
  /\ ~BudgetExhausted

\* C2 as stated: after SCROLL_IDLE_ROUNDS consecutive iterations in which the
\* scroll state did not change and no new identifier was found (and the
\* container was not replaced) no further iteration is started.
C2_IdleTerminationAlways == pc = "scan" => stalled_rounds < SCROLL_IDLE_ROUNDS

\* C2, amended: past the warm-up, the loop is left after exactly
\* SCROLL_IDLE_ROUNDS consecutive stalled iterations: no iteration is started
\* after that many, and the loop is not left for idleness after fewer.
C2_IdleTermination ==
  /\ (PastWarmUp /\ pc = "scan") => stalled_rounds < SCROLL_IDLE_ROUNDS
  /\ LeftForIdleOnly => stalled_rounds = SCROLL_IDLE_ROUNDS
  /\ (PastWarmUp /\ pc \in {"while", "scan", "exit"}) => idle = stalled_rounds

\* The loop left after SCROLL_IDLE_ROUNDS stalled iterations and nothing else.
C2_Witness ==
  /\ LeftForIdleOnly
  /\ PastWarmUp
  /\ stalled_rounds = SCROLL_IDLE_ROUNDS
  /\ idle = SCROLL_IDLE_ROUNDS

RowIds == {rows[i] : i \in 1..Len(rows)}

\* C3 as stated: when the feed has gone quiet for SCROLL_IDLE_ROUNDS
\* iterations the loop ends with the idle counter at its threshold, and the
\* rows are exactly the identifiers the feed exposed, one row each.
C3_IdleExhaustionAlways ==
  (pc = "exit" /\ stalled_rounds >= SCROLL_IDLE_ROUNDS) =>
    /\ idle >= SCROLL_IDLE_ROUNDS
    /\ RowIds = exposed /\ Len(rows) = Cardinality(exposed)

\* C3, amended: the same past the warm-up (advertised total known, or at
\* least MIN_PLATEAU_COUNT identifiers seen).
C3_IdleExhaustion ==
  (pc = "exit" /\ stalled_rounds >= SCROLL_IDLE_ROUNDS /\ PastWarmUp) =>
    /\ idle >= SCROLL_IDLE_ROUNDS
    /\ RowIds = exposed /\ Len(rows) = Cardinality(exposed)
    /\ RowIds \subseteq Ids

\* The spec's example: three identifiers over the first iterations, then a
\* quiet feed; the loop left for idleness alone, before the round cap.
C3_Witness ==
  /\ LeftForIdleOnly
  /\ idle = SCROLL_IDLE_ROUNDS
  /\ stalled_rounds = SCROLL_IDLE_ROUNDS
  /\ rows = <<1, 2, 3>>
  /\ exposed = {1, 2, 3}
  /\ rounds = SCROLL_IDLE_ROUNDS + 2

\* C4: once the seen-count is >= max(0, T - L) no further scan iteration is
\* started: the next test of the loop (the while condition or the break of
\* line 801) leaves the loop.
C4_TargetReachedTermination ==
  [][UiTargetReached =>
       /\ pc' \notin {"scan", "rebounce"}
       /\ pc \in {"while", "advance"} => pc' \in {pc, "exit"}]_vars

\* The loop was left with rows, for no other reason than the advertised total.
C4_Witness ==
  /\ pc = "exit"
  /\ UiTargetReached
  /\ max_reviews = 0
  /\ Len(rows) >= 1
  /\ idle < SCROLL_IDLE_ROUNDS /\ rounds < MAX_SCROLL_ROUNDS
  /\ ~BudgetExhausted

\* C5: with a known advertised total T the number of records collected never
\* exceeds T + L.
C5_NeverExceedsTotalPlusLag ==
  ui_total # None => Len(rows) <= ui_total + UI_LAG_TOLERANCE

\* C6: however the session ends, the caller holds the rows accumulated.
C6_RowsHandedBack == pc = "end" => returned = rows

\* C7: the loop runs at most MAX_SCROLL_ROUNDS iterations, starts one only
\* while none of the five conditions holds, is left only when one of them
\* holds, and the session ends.
C7_LoopBounded ==
  /\ rounds <= MAX_SCROLL_ROUNDS
  /\ pc \in {"scan", "rebounce", "extract", "scroll", "rebind", "advance"} =>
       rounds < MAX_SCROLL_ROUNDS
  /\ pc = "scan" =>
       /\ idle < SCROLL_IDLE_ROUNDS
       /\ ~TargetReached(seen_ids, ui_total, max_reviews)
       /\ ~BudgetExhausted
  /\ pc = "exit" =>
       \/ idle >= SCROLL_IDLE_ROUNDS
       \/ rounds >= MAX_SCROLL_ROUNDS
       \/ TargetReached(seen_ids, ui_total, max_reviews)
       \/ BudgetExhausted
C7_LoopTerminates == []C7_LoopBounded /\ <>(pc = "end")

\* The loop left at the round cap, every other condition still false.
C7_Witness ==
  /\ pc = "exit"
  /\ rounds = MAX_SCROLL_ROUNDS
  /\ idle < SCROLL_IDLE_ROUNDS
  /\ ~TargetReached(seen_ids, ui_total, max_reviews)
  /\ ~BudgetExhausted

\* C8: no step of the loop removes an identifier from seen_ids.
C8_SeenNeverShrinks == [][seen_ids \subseteq seen_ids']_vars

\* The set has grown over more than one iteration.
C8_Witness ==
  /\ pc = "rebind"
  /\ prev_total >= 1
  /\ Cardinality(seen_ids) > prev_total

\* C9: when the locator, re-invoked in a stalled iteration, returns a
\* scrollable container whose marker was read and is not the marker of the
\* active container, that container becomes the active one and idle is 0.
C9_RebindReplacesContainer ==
  [][(pc = "rebind" /\ pc' = "advance" /\ cand' # NoCand /\ cand'[2]
        /\ cand'[1] # container)
       => (container' = cand'[1] /\ idle' = 0)]_vars

\* C10: with MAX_REVIEWS_PER_PLACE = M > 0 the rows never exceed M and, once
\* M identifiers are seen, nothing more is extracted and no iteration is
\* started; with M = 0 the loop is only left for one of the other reasons.
C10_RecordCap ==
  /\ max_reviews # 0 => Len(rows) <= max_reviews /\ Len(returned) <= max_reviews
  /\ (max_reviews # 0 /\ Cardinality(seen_ids) >= max_reviews) =>
       pc \in {"scroll", "rebind", "advance", "exit", "raised", "end"}
  /\ (max_reviews = 0 /\ pc = "exit") =>
       \/ idle >= SCROLL_IDLE_ROUNDS
       \/ rounds >= MAX_SCROLL_ROUNDS
       \/ UiTargetReached
       \/ BudgetExhausted

\* The first scan with new identifiers listed more than M of them and the
\* for loop stopped at M, leaving the rest unextracted.
C10_Witness ==
  /\ pc = "scroll"
  /\ max_reviews # 0
  /\ prev_total = 0
  /\ Len(rows) = max_reviews
  /\ new_ids # {}

\* C23: idle counting. The idle counter goes up, by one, only in the idle
\* update of an iteration in which no identifier was added (the seen-count is
\* that of the previous iteration) and the scroll position and extent read
\* after the scroll are those remembered from the previous read; in an
\* iteration with a new identifier or a changed scroll state the update puts
\* it to 0; and every other change of the counter puts it to 0.
C23_IdleCounting ==
  [][/\ idle' # idle =>
          \/ idle' = 0
          \/ /\ idle' = idle + 1
             /\ pc = "scroll"
             /\ total = prev_total
             /\ sc' = prev_scroll_state
     /\ (pc = "scroll" /\ pc' = "rebind"
           /\ (total # prev_total \/ sc' # prev_scroll_state))
          => idle' = 0]_vars

\* The idle update has just counted a stalled iteration of a session that
\* has rows.
C23_Witness ==
  /\ pc = "rebind"
  /\ idle = 1
  /\ total = prev_total
  /\ sc = prev_scroll_state
  /\ Len(rows) >= 1

\* The session is in its warm-up: the advertised total is unknown and fewer
\* than MIN_PLATEAU_COUNT identifiers are seen.
WarmingUp == ui_total = None /\ Cardinality(seen_ids) < MIN_PLATEAU_COUNT

\* C24: warm-up exception. While the advertised total is unknown and fewer
\* than MIN_PLATEAU_COUNT identifiers are seen, the idle counter is 0 and the
\* loop is not left for idleness.
C24_WarmUpException ==
  WarmingUp =>
    /\ idle = 0
    /\ ~(/\ pc = "exit"
         /\ rounds < MAX_SCROLL_ROUNDS
         /\ ~TargetReached(seen_ids, ui_total, max_reviews)
         /\ ~BudgetExhausted)

\* In the warm-up, SCROLL_IDLE_ROUNDS stalled iterations in a row have left
\* the idle counter at 0.
C24_Witness ==
  /\ WarmingUp
  /\ pc = "rebind"
  /\ total = prev_total /\ sc = prev_scroll_state
  /\ stalled_rounds = SCROLL_IDLE_ROUNDS
  /\ idle = 0

\* The first rebounce (611-624) of the current iteration is behind.
PastFirstRebounce == pc \in {"extract", "scroll", "rebind", "advance"}

\* Attempts of the first rebounce made so far, counted while rebounce_done
\* is still False and fewer than MIN_PLATEAU_COUNT identifiers are seen: the
\* flag is never put back to False and seen_ids never shrinks, so the test
\* of line 612 has held, and _click_all_reviews_if_present has been called,
\* in every iteration from rounds = 2 on. Attempts of the second rebounce
\* (805-816) come on top.
FirstRebounceAttempts ==
  IF ~rebounce_done /\ Cardinality(seen_ids) < MIN_PLATEAU_COUNT
    THEN Max(0, rounds - 2) + (IF rounds >= 2 /\ PastFirstRebounce THEN 1 ELSE 0)
    ELSE 0

\* C25: bounded rebounce. Within one session the open-all-reviews control is
\* re-triggered at most twice.
C25_BoundedRebounce == FirstRebounceAttempts <= 2

\* C26: rebinding precondition. The locator is re-invoked for rebinding only
\* in an iteration in which no identifier was added since the previous
\* iteration and the scroll position and extent are unchanged.
C26_RebindPrecondition ==
  (pc = "rebind" /\ ~RebindReadsUnbound /\ RebindCondition)
    => /\ total = prev_total
       /\ (no_growth \/ before = sc)

\* C30: identity marker stability. When the locator, re-invoked in the
\* rebind step, returns the active container, nothing is rebound: the
\* container, the remembered marker, the idle counter and the remembered
\* scroll state are as before the step.
C30_MarkerStability ==
  [][(pc = "rebind" /\ pc' = "advance" /\ cand' # NoCand /\ cand'[1] = container)
       => /\ container' = container
          /\ last_container_guid' = last_container_guid
          /\ idle' = idle
          /\ prev_scroll_state' = prev_scroll_state]_vars

\* C32: rows and seen set stay in step. In every state of the loop, and so
\* at every iteration boundary, the Review IDs of the rows are the seen
\* identifiers and there is one row per seen identifier; an identifier
\* without a row is not marked seen, and the list of new identifiers of a
\* scan holds every visible identifier that is not seen.
C32_RowsAndSeenInStep ==
  /\ {rows[i] : i \in 1..Len(rows)} = seen_ids
  /\ Len(rows) = Cardinality(seen_ids)
  /\ pc = "rebounce" => new_ids = {r \in curr_ids : r \notin seen_ids}

\* An iteration boundary after two iterations that extracted rows.
C32_Witness ==
  /\ pc = "while"
  /\ rounds >= 2
  /\ Len(rows) >= 3
  /\ prev_total = Len(rows)

\* C34: a session whose place advertises a total of at least 1 runs at
\* least one scan iteration: the loop is not left before its first
\* iteration unless a time budget is spent.
C34_FirstScanRuns ==
  (pc = "exit" /\ rounds = 0 /\ ui_total # None /\ ui_total >= 1) => BudgetExhausted

\* ======================================================================
\* Worker threads: run_worker, process_one and the browser session of one
\* attempt (main_reviews.py 129-204, scrape_reviews.py 404-420 and 832-843).
\* The scroll loop of a session is the specification above; here a session's
\* body is one step that raises or returns some number of rows.

\* No scrape session is modelled step by step.
SessionIdle ==
  /\ pc = "idle"
  /\ ui_total = None /\ max_reviews = 0
  /\ rows = <<>> /\ seen_ids = {}
  /\ idle = 0 /\ prev_total = 0 /\ rounds = 0
  /\ prev_scroll_state = <<-1, -1>>
  /\ no_new_rounds = 0 /\ rebounce_done = FALSE
  /\ container = 1 /\ last_container_guid = None
  /\ curr_ids = {} /\ new_ids = {}
  /\ before = <<-1, -1>> /\ sc = <<Unbound, Unbound>>
  /\ no_growth = FALSE /\ no_new_ids = FALSE
  /\ cand = NoCand
  /\ now = 0 /\ last_progress_ts = 0
  /\ outcome = "running" /\ returned = <<>>
  /\ exposed = {} /\ stalled_rounds = 0

\* The variables the worker specification leaves alone.
outsidePool == <<sessionVars, mainVars, loadVars, catVars, dateVars, openVars, cardVars, findVars>>

\* tasks[i::k] of line 251 for tasks = 1..n (line 237): the entities of the
\* chunk with 0-based index i, in order.
Stride(n, k, i) ==
  IF i >= n THEN <<>>
  ELSE [j \in 1..(((n - i - 1) \div k) + 1) |-> i + 1 + (j - 1) * k]

\* chunks[w - 1] for the worker w.
Chunk(w) == Stride(NumPlaces, Cardinality(Workers), w - 1)

\* OUT_HEADER, lines 46-51.
OUT_HEADER ==
  {"Place", "Category", "Categories", "Place (UI)", "Place URL", "Input URL",
   "Review ID", "Review URL", "Rating", "Date", "Author", "Author URL",
   "Author Photo", "Is Local Guide", "Text", "Photo URLs (list)", "RawReview"}

\* The keys of a row built by scrape_place_reviews (scrape_reviews.py 727-741).
RowKeys ==
  {"Place (UI)", "Place URL", "Input URL", "Lat", "Lng", "Review ID",
   "Review URL", "Rating", "Date", "Author", "Author URL", "Author Photo",
   "Is Local Guide", "Text", "Photo URLs (list)", "RawReview"}

\* row_to_write of lines 159-169: the row plus Category and Categories.
RowToWriteKeys == RowKeys \cup {"Category", "Categories"}

\* csv.DictWriter(out_f, fieldnames=OUT_HEADER) of line 232 keeps the default
\* extrasaction="raise": writerow raises ValueError for a key outside the
\* field names.
WriteRowAccepts(keys) == keys \subseteq OUT_HEADER

\* A wait that does not depend on the attempt.
BackoffFlat(k) == 8

\* time.sleep(0.8 * attempt) of line 150, in tenths of a second.
Backoff(k) == 8 * k

\* The threads run_worker is called on, each at the top of its for loop
\* (line 203), lock free, sink holding the header only.
PoolInit ==
  /\ wpc = [w \in Workers |-> "jobs"]
  /\ job = [w \in Workers |-> 0]
  /\ attempt = [w \in Workers |-> 0]
  /\ created = [w \in Workers |-> {}]
  /\ close_called = [w \in Workers |-> {}]
  /\ close_failed = [w \in Workers |-> {}]
  /\ status = [w \in Workers |-> "ok"]
  /\ got = [w \in Workers |-> 0]
  /\ collected_rows = [w \in Workers |-> 0]
  /\ last_result = [w \in Workers |-> "none"]
  /\ slept = [w \in Workers |-> 0]
  /\ lock = 0
  /\ sink = <<>>
  /\ SessionIdle
  /\ MainIdle
  /\ LoadIdle
  /\ CatIdle
  /\ DateIdle
  /\ OpenIdle
  /\ CardIdle
  /\ FindIdle

\* run_worker 203-204 and process_one 139-140: take the next entity of the
\* chunk, or end the thread.
DoNextJob(w) ==
  /\ wpc[w] = "jobs"
  /\ IF job[w] < Len(Chunk(w))
       THEN /\ job' = [job EXCEPT ![w] = @ + 1]
            /\ wpc' = [wpc EXCEPT ![w] = "attempt"]
       ELSE /\ job' = job
            /\ wpc' = [wpc EXCEPT ![w] = "done"]
  /\ attempt' = [attempt EXCEPT ![w] = 0]
  /\ collected_rows' = [collected_rows EXCEPT ![w] = 0]
  /\ last_result' = [last_result EXCEPT ![w] = "none"]
  /\ slept' = [slept EXCEPT ![w] = 0]
  /\ UNCHANGED <<created, close_called, close_failed, status, got, lock, sink>>

\* process_one 142-144: the head of the for loop over the attempts; the next
\* attempt calls scrape_place_reviews, the exhausted loop falls to line 152.
DoNextAttempt(w) ==
  /\ wpc[w] = "attempt"
  /\ IF attempt[w] < MAX_RETRIES_PER_PLACE
       THEN /\ attempt' = [attempt EXCEPT ![w] = @ + 1]
            /\ wpc' = [wpc EXCEPT ![w] = "launch"]
       ELSE /\ attempt' = attempt
            /\ wpc' = [wpc EXCEPT ![w] = "check"]
  /\ UNCHANGED <<job, created, close_called, close_failed, status, got,
                 collected_rows, last_result, slept, lock, sink>>

\* One of the three constructions of lines 408-420: it returns the resource,
\* or it raises and control goes to the finally block.
Construct(w, at, res, then) ==
  /\ wpc[w] = at
  /\ \/ /\ created' = [created EXCEPT ![w] = @ \cup {res}]
        /\ wpc' = [wpc EXCEPT ![w] = then]
        /\ status' = status
     \/ /\ created' = created
        /\ wpc' = [wpc EXCEPT ![w] = "close_page"]
        /\ status' = [status EXCEPT ![w] = "exc"]
  /\ UNCHANGED <<job, attempt, close_called, close_failed, got, collected_rows,
                 last_result, slept, lock, sink>>

\* Line 408: browser_type.launch.
DoLaunch(w) == Construct(w, "launch", "browser", "new_context")
\* Lines 414-418: browser.new_context.
DoNewContext(w) == Construct(w, "new_context", "context", "new_page")
\* Line 420: context.new_page.
DoNewPage(w) == Construct(w, "new_page", "page", "body")

\* Lines 421-830: the rest of the try block, one step: it raises with the
\* rows accumulated so far in its local list, or reaches line 829 with some
\* number of rows.
DoBody(w) ==
  /\ wpc[w] = "body"
  /\ \/ status' = [status EXCEPT ![w] = "exc"]
     \/ status' = status
  /\ \E n \in 0..MaxRows : got' = [got EXCEPT ![w] = n]
  /\ wpc' = [wpc EXCEPT ![w] = "close_page"]
  /\ UNCHANGED <<job, attempt, created, close_called, close_failed,
                 collected_rows, last_result, slept, lock, sink>>

\* A finally block that only closes the page.
ShouldCloseOnlyPage(res, crt) == res = "page" /\ res \in crt

\* The tests "if page:", "if context:", "if browser:" of lines 834-840.
ShouldClose(res, crt) == res \in crt

\* One of the three closes of the finally block (833-841), each in its own
\* try: close() is called when the resource exists, and may raise.
Close(w, at, res, then) ==
  /\ wpc[w] = at
  /\ IF ShouldClose(res, created[w])
       THEN /\ close_called' = [close_called EXCEPT ![w] = @ \cup {res}]
            /\ \/ close_failed' = close_failed
               \/ close_failed' = [close_failed EXCEPT ![w] = @ \cup {res}]
       ELSE UNCHANGED <<close_called, close_failed>>
  /\ wpc' = [wpc EXCEPT ![w] = then]
  /\ UNCHANGED <<job, attempt, created, status, got, collected_rows, last_result,
                 slept, lock, sink>>

DoClosePage(w) == Close(w, "close_page", "page", "close_context")
DoCloseContext(w) == Close(w, "close_context", "context", "close_browser")
DoCloseBrowser(w) == Close(w, "close_browser", "browser", "session_exit")

\* The session's frame is gone.
SessionDropped(w) ==
  /\ created' = [created EXCEPT ![w] = {}]
  /\ close_called' = [close_called EXCEPT ![w] = {}]
  /\ close_failed' = [close_failed EXCEPT ![w] = {}]
  /\ status' = [status EXCEPT ![w] = "ok"]
  /\ got' = [got EXCEPT ![w] = 0]

\* A retry loop that keeps the rows of an attempt that raised.
SessionExitKeepingRows(w) ==
  /\ wpc[w] = "session_exit"
  /\ IF status[w] = "exc"
       THEN /\ last_result' = [last_result EXCEPT ![w] = "raised"]
            /\ collected_rows' = [collected_rows EXCEPT ![w] = got[w]]
            /\ wpc' = [wpc EXCEPT ![w] = "sleep"]
       ELSE /\ last_result' = [last_result EXCEPT ![w] = "returned"]
            /\ collected_rows' = [collected_rows EXCEPT ![w] = got[w]]
            /\ wpc' = [wpc EXCEPT ![w] = "check"]
  /\ SessionDropped(w)
  /\ UNCHANGED <<job, attempt, slept, lock, sink>>

\* A retry loop that takes an empty result for a failed attempt.
SessionExitRetryingEmpty(w) ==
  /\ wpc[w] = "session_exit"
  /\ IF status[w] = "exc" \/ got[w] = 0
       THEN /\ last_result' = [last_result EXCEPT ![w] =
                                 IF status[w] = "exc" THEN "raised" ELSE "returned"]
            /\ collected_rows' = collected_rows
            /\ wpc' = [wpc EXCEPT ![w] = "sleep"]
       ELSE /\ last_result' = [last_result EXCEPT ![w] = "returned"]
            /\ collected_rows' = [collected_rows EXCEPT ![w] = got[w]]
            /\ wpc' = [wpc EXCEPT ![w] = "check"]
  /\ SessionDropped(w)
  /\ UNCHANGED <<job, attempt, slept, lock, sink>>

\* scrape_place_reviews leaves (843, or the exception after the finally
\* block) and process_one continues: lines 145-146 on a return, 147-149 on
\* an exception.
DoSessionExit(w) ==
  /\ wpc[w] = "session_exit"
  /\ IF status[w] = "exc"
       THEN /\ last_result' = [last_result EXCEPT ![w] = "raised"]
            /\ collected_rows' = collected_rows
            /\ wpc' = [wpc EXCEPT ![w] = "sleep"]
       ELSE /\ last_result' = [last_result EXCEPT ![w] = "returned"]
            /\ collected_rows' = [collected_rows EXCEPT ![w] = got[w]]
            /\ wpc' = [wpc EXCEPT ![w] = "check"]
  /\ SessionDropped(w)
  /\ UNCHANGED <<job, attempt, slept, lock, sink>>

\* Line 150: the wait after a failed attempt.
DoSleep(w) ==
  /\ wpc[w] = "sleep"
  /\ slept' = [slept EXCEPT ![w] = Backoff(attempt[w])]
  /\ wpc' = [wpc EXCEPT ![w] = "attempt"]
  /\ UNCHANGED <<job, attempt, created, close_called, close_failed, status, got,
                 collected_rows, last_result, lock, sink>>

\* Lines 152-154: nothing collected, the entity is reported failed and
\* process_one returns; else on to the write.
DoCheckRows(w) ==
  /\ wpc[w] = "check"
  /\ wpc' = [wpc EXCEPT ![w] = IF collected_rows[w] = 0 THEN "jobs" ELSE "acquire"]
  /\ UNCHANGED <<job, attempt, created, close_called, close_failed, status, got,
                 collected_rows, last_result, slept, lock, sink>>

\* A lock that is always granted.
CanAcquireAlways(holder) == TRUE

\* threading.Lock: acquired only while free.
CanAcquire(holder) == holder = 0

\* Line 157: with lock.
DoAcquire(w) ==
  /\ wpc[w] = "acquire"
  /\ CanAcquire(lock)
  /\ lock' = w
  /\ wpc' = [wpc EXCEPT ![w] = "write"]
  /\ UNCHANGED <<job, attempt, created, close_called, close_failed, status, got,
                 collected_rows, last_result, slept, sink>>

\* Lines 158-179, one row per step: writer.writerow appends the row to the
\* sink, or raises and the exception leaves the with block.
DoWriteRow(w) ==
  /\ wpc[w] = "write"
  /\ IF collected_rows[w] = 0
       THEN /\ wpc' = [wpc EXCEPT ![w] = "release"]
            /\ UNCHANGED <<sink, collected_rows, status>>
       ELSE IF WriteRowAccepts(RowToWriteKeys)
         THEN /\ sink' = Append(sink, Chunk(w)[job[w]])
              /\ collected_rows' = [collected_rows EXCEPT ![w] = @ - 1]
              /\ UNCHANGED <<wpc, status>>
         ELSE /\ status' = [status EXCEPT ![w] = "exc"]
              /\ wpc' = [wpc EXCEPT ![w] = "release"]
              /\ UNCHANGED <<sink, collected_rows>>
  /\ UNCHANGED <<job, attempt, created, close_called, close_failed, got,
                 last_result, slept, lock>>

\* A lock that stays held when the writing section is left by an exception.
ReleaseUnlessRaised(w) ==
  /\ wpc[w] = "release"
  /\ lock' = IF status[w] = "exc" THEN lock ELSE 0
  /\ wpc' = [wpc EXCEPT ![w] = IF status[w] = "exc" THEN "dead" ELSE "jobs"]
  /\ status' = [status EXCEPT ![w] = "ok"]
  /\ UNCHANGED <<job, attempt, created, close_called, close_failed, got,
                 collected_rows, last_result, slept, sink>>

\* The end of the with block: the lock is released; process_one returns
\* (181-186), or the exception of the write leaves process_one and, uncaught
\* in run_worker (203-204), ends the thread.
DoRelease(w) ==
  /\ wpc[w] = "release"
  /\ lock' = 0
  /\ wpc' = [wpc EXCEPT ![w] = IF status[w] = "exc" THEN "dead" ELSE "jobs"]
  /\ status' = [status EXCEPT ![w] = "ok"]
  /\ UNCHANGED <<job, attempt, created, close_called, close_failed, got,
                 collected_rows, last_result, slept, sink>>

\* The steps of the workers as steps of the whole program: everything
\* outside the pool stays as it is.
NextJob(w) == DoNextJob(w) /\ UNCHANGED outsidePool
NextAttempt(w) == DoNextAttempt(w) /\ UNCHANGED outsidePool
Launch(w) == DoLaunch(w) /\ UNCHANGED outsidePool
NewContext(w) == DoNewContext(w) /\ UNCHANGED outsidePool
NewPage(w) == DoNewPage(w) /\ UNCHANGED outsidePool
Body(w) == DoBody(w) /\ UNCHANGED outsidePool
ClosePage(w) == DoClosePage(w) /\ UNCHANGED outsidePool
CloseContext(w) == DoCloseContext(w) /\ UNCHANGED outsidePool
CloseBrowser(w) == DoCloseBrowser(w) /\ UNCHANGED outsidePool
SessionExit(w) == DoSessionExit(w) /\ UNCHANGED outsidePool
Sleep(w) == DoSleep(w) /\ UNCHANGED outsidePool
CheckRows(w) == DoCheckRows(w) /\ UNCHANGED outsidePool
Acquire(w) == DoAcquire(w) /\ UNCHANGED outsidePool
WriteRow(w) == DoWriteRow(w) /\ UNCHANGED outsidePool
Release(w) == DoRelease(w) /\ UNCHANGED outsidePool

PoolNext ==
  \E w \in Workers :
    \/ NextJob(w)
    \/ NextAttempt(w)
    \/ Launch(w)
    \/ NewContext(w)
    \/ NewPage(w)
    \/ Body(w)
    \/ ClosePage(w)
    \/ CloseContext(w)
    \/ CloseBrowser(w)
    \/ SessionExit(w)
    \/ Sleep(w)
    \/ CheckRows(w)
    \/ Acquire(w)
    \/ WriteRow(w)
    \/ Release(w)

PoolSpec == PoolInit /\ [][PoolNext]_vars

\* run_worker 199-204: the steps of one worker thread.
WorkerNext(w) ==
  \/ DoNextJob(w)
  \/ DoNextAttempt(w)
  \/ DoLaunch(w)
  \/ DoNewContext(w)
  \/ DoNewPage(w)
  \/ DoBody(w)
  \/ DoClosePage(w)
  \/ DoCloseContext(w)
  \/ DoCloseBrowser(w)
  \/ DoSessionExit(w)
  \/ DoSleep(w)
  \/ DoCheckRows(w)
  \/ DoAcquire(w)
  \/ DoWriteRow(w)
  \/ DoRelease(w)

\* Every worker is an operating-system thread: one that can take a step is
\* scheduled in the end. The lock itself promises no order among waiters.
FairPoolSpec == PoolSpec /\ \A w \in Workers : WF_poolVars(WorkerNext(w))

\* ----------------------------------------------------------------------
\* Properties of the worker threads (PoolSpec).

\* C11: guaranteed cleanup. When scrape_place_reviews is left after the
\* launch was attempted, by a return or by an exception, close() has been
\* called on exactly those of page, context and browser that were created,
\* whether or not an earlier close raised.
C11_GuaranteedCleanup ==
  \A w \in Workers :
    wpc[w] = "session_exit" => close_called[w] = created[w]

\* A session that failed with only browser and context created, where closing
\* the context raised and the browser was closed all the same.
C11_Witness ==
  \E w \in Workers :
    /\ wpc[w] = "session_exit"
    /\ status[w] = "exc"
    /\ created[w] = {"browser", "context"}
    /\ "context" \in close_failed[w]
    /\ close_called[w] = {"browser", "context"}

\* C12: per-entity retry. process_one makes at most MAX_RETRIES_PER_PLACE
\* attempts for an entity; an attempt after the first starts only when the
\* one before raised; after an attempt that returned no further attempt is
\* made; and the wait after the k-th failed attempt is 0.8 s times k.
C12_PerEntityRetry ==
  /\ [](\A w \in Workers :
          /\ attempt[w] <= MAX_RETRIES_PER_PLACE
          /\ (wpc[w] = "attempt" /\ last_result[w] = "raised")
               => slept[w] = 8 * attempt[w])
  /\ [][\A w \in Workers :
          /\ attempt'[w] = attempt[w] + 1
               => (attempt[w] = 0 \/ last_result[w] = "raised")
          /\ last_result[w] = "returned" => attempt'[w] \in {attempt[w], 0}]_vars

\* The second attempt for an entity has failed and its wait is over.
C12_Witness ==
  \E w \in Workers :
    /\ wpc[w] = "attempt"
    /\ attempt[w] = 2
    /\ last_result[w] = "raised"
    /\ slept[w] = 16

\* C13: no cross-entity cascading failure. A worker thread ends only after
\* it has handled every entity of its chunk: no failure while scraping an
\* entity or writing its rows keeps the worker from its later entities.
C13_NoCascadingFailure ==
  \A w \in Workers :
    wpc[w] \in {"done", "dead"} => job[w] = Len(Chunk(w))

\* C14: output sink mutual exclusion. At most one worker is between the
\* acquisition and the release of the lock, and the rows of one entity lie
\* next to each other in the sink.
C14_SinkMutualExclusion ==
  /\ Cardinality({w \in Workers : wpc[w] \in {"write", "release"}}) <= 1
  /\ \A i, k \in 1..Len(sink) :
       (i < k /\ sink[i] = sink[k]) => \A j \in i..k : sink[j] = sink[i]

\* One worker is in the row-writing section while another waits for the lock.
C14_Witness ==
  \E w, v \in Workers :
    /\ wpc[w] = "write" /\ lock = w
    /\ wpc[v] = "acquire"

\* C33: every row of a successful scrape, with Category and Categories
\* added, has only keys of OUT_HEADER, so the writer accepts it: a worker
\* about to write a row holds one the writer takes, and no worker is ended
\* by the write.
C33_WriterAcceptsRows ==
  \A w \in Workers :
    /\ (wpc[w] = "write" /\ collected_rows[w] > 0) => RowToWriteKeys \subseteq OUT_HEADER
    /\ wpc[w] # "dead"

\* C38: an attempt that returns an empty row list without raising ends the
\* retry loop: the worker goes to the test of line 152 with the attempt
\* counter as it was, and from there to its next entity, the lock and the
\* sink untouched.
C38_EmptyReturnEndsRetries ==
  [][\A w \in Workers :
       /\ (wpc[w] = "session_exit" /\ status[w] # "exc" /\ got[w] = 0
           /\ wpc'[w] # wpc[w])
            => /\ wpc'[w] = "check"
               /\ attempt'[w] = attempt[w]
               /\ last_result'[w] = "returned"
               /\ collected_rows'[w] = 0
       /\ (wpc[w] = "check" /\ last_result[w] = "returned"
           /\ collected_rows[w] = 0 /\ wpc'[w] # wpc[w])
            => /\ wpc'[w] = "jobs"
               /\ attempt'[w] = attempt[w]
               /\ lock' = lock
               /\ sink' = sink]_vars

\* A first attempt returned nothing, and the worker is back at its job list
\* with an attempt left unused, while the other worker holds the lock.
C38_Witness ==
  \E w \in Workers :
    /\ wpc[w] = "jobs"
    /\ job[w] >= 1
    /\ last_result[w] = "returned"
    /\ collected_rows[w] = 0
    /\ attempt[w] = 1
    /\ attempt[w] < MAX_RETRIES_PER_PLACE
    /\ lock \notin {0, w}
    /\ sink = <<>>

\* C35: the rows handed to the writer for one entity are those of exactly
\* one attempt, the one that returned: every attempt starts with no rows, an
\* attempt that raised leaves collected_rows and the sink as they were, rows
\* are taken over only from an attempt that returned and only once per
\* entity, and a worker in the writing section got there by a return.
C35_RowsOfOneAttempt ==
  /\ [](\A w \in Workers :
          /\ collected_rows[w] > 0 => last_result[w] = "returned"
          /\ wpc[w] \in {"acquire", "write", "release"} => last_result[w] = "returned"
          /\ wpc[w] \in {"launch", "new_context", "new_page", "body"} => got[w] = 0)
  /\ [][\A w \in Workers :
          /\ (wpc[w] = "session_exit" /\ status[w] = "exc" /\ wpc'[w] # wpc[w])
               => /\ collected_rows'[w] = collected_rows[w]
                  /\ sink' = sink
          /\ collected_rows'[w] > collected_rows[w]
               => /\ wpc[w] = "session_exit"
                  /\ status[w] # "exc"
                  /\ collected_rows[w] = 0
                  /\ collected_rows'[w] = got[w]
          /\ (wpc[w] = "check" /\ last_result[w] = "returned" /\ wpc'[w] # wpc[w])
               => wpc'[w] \in {"jobs", "acquire"}]_vars

\* A second attempt returned rows after the first one raised, and the worker
\* holds the lock with all of them still to write.
C35_Witness ==
  \E w \in Workers :
    /\ wpc[w] = "write"
    /\ lock = w
    /\ attempt[w] = 2
    /\ slept[w] > 0
    /\ last_result[w] = "returned"
    /\ collected_rows[w] = MaxRows

\* C37: the output lock is released on every exit from the row-writing
\* section, the exit by an exception of the write included: the lock is held
\* only by a worker inside the section, and every worker that requests the
\* lock acquires it in the end.
C37_LockAlwaysReleased ==
  /\ [](\A w \in Workers : lock = w => wpc[w] \in {"write", "release"})
  /\ \A w \in Workers : (wpc[w] = "acquire") ~> (wpc[w] = "write" /\ lock = w)

\* A worker waits for the lock while the write of the worker holding it has
\* raised and the section is being left.
C37_Witness ==
  \E w, v \in Workers :
    /\ wpc[w] = "acquire"
    /\ wpc[v] = "release"
    /\ status[v] = "exc"
    /\ lock = v

\* ======================================================================
\* main (main_reviews.py 207-273): the sink, the number of workers, the
\* executor section and the finally block.

\* The variables the specification of main leaves alone.
outsideMain == <<sessionVars, poolVars, loadVars, catVars, dateVars, openVars, cardVars, findVars>>

\* The names bound in main when line 266 runs: its assignments (208-263) and
\* the module's globals that line uses.
BoundNames ==
  {"parser", "args", "places", "proxies", "lock", "out_dir", "need_header",
   "out_f", "writer", "tasks", "wanted_threads", "workers", "chunks", "ex",
   "futures", "w_id", "proxy_for_worker", "run_worker"}

\* Line 239: wanted_threads.
WantedThreads(t) == Max(1, t)

\* Lines 240-247: the number of workers.
WorkerCount(t, np) == IF np > 0 THEN Min(WantedThreads(t), np) ELSE WantedThreads(t)

\* Line 263: proxy_for_worker, as an index into proxies.
ProxyFor(w_id, np) == IF np > 0 THEN w_id ELSE None

\* main is entered with some input file, --threads, proxy file and output
\* file.
MainInit ==
  /\ mpc = "load"
  /\ places_n \in 0..NumPlaces
  /\ threads \in -1..MaxThreads
  /\ proxies_n \in 0..MaxProxies
  /\ need_header \in BOOLEAN
  /\ workers_n = 0 /\ started = {}
  /\ out_f = "none" /\ header = FALSE /\ flushed = FALSE
  /\ exc = "none" /\ done = FALSE
  /\ SessionIdle
  /\ PoolIdle
  /\ LoadIdle
  /\ CatIdle
  /\ DateIdle
  /\ OpenIdle
  /\ CardIdle
  /\ FindIdle

\* Lines 216-219: no place loaded, main returns at once.
LoadInput ==
  /\ mpc = "load"
  /\ mpc' = IF places_n = 0 THEN "returned" ELSE "open"
  /\ UNCHANGED <<places_n, threads, proxies_n, need_header, workers_n, started,
                 out_f, header, flushed, exc, done, outsideMain>>

\* Lines 230-234: the sink is opened for appending and gets its header when
\* it is new or empty.
OpenSink ==
  /\ mpc = "open"
  /\ out_f' = "open"
  /\ header' = need_header
  /\ mpc' = "plan"
  /\ UNCHANGED <<places_n, threads, proxies_n, need_header, workers_n, started,
                 flushed, exc, done, outsideMain>>

\* Lines 237-257: the number of workers and their chunks; then the try block
\* and the executor's with block are entered (259-261).
PlanWorkers ==
  /\ mpc = "plan"
  /\ workers_n' = WorkerCount(threads, proxies_n)
  /\ mpc' = "pool"
  /\ UNCHANGED <<places_n, threads, proxies_n, need_header, started, out_f,
                 header, flushed, exc, done, outsideMain>>

\* Lines 262-268: the loop over range(workers). Line 266 evaluates the name
\* futs before it calls ex.submit; a name that is not bound raises NameError
\* and nothing is submitted. With the name bound, one run_worker per w_id is
\* submitted and main waits for them.
SubmitAll ==
  /\ mpc = "pool"
  /\ IF "futs" \in BoundNames
       THEN /\ started' = {<<w_id, ProxyFor(w_id, proxies_n)>> : w_id \in 0..(workers_n - 1)}
            /\ exc' = exc
       ELSE /\ started' = started
            /\ exc' = "NameError"
  /\ mpc' = "pool_exit"
  /\ UNCHANGED <<places_n, threads, proxies_n, need_header, workers_n, out_f,
                 header, flushed, done, outsideMain>>

\* An interrupt from outside (KeyboardInterrupt) while main is in the
\* executor section.
Interrupt ==
  /\ mpc = "pool"
  /\ exc' = "KeyboardInterrupt"
  /\ mpc' = "pool_exit"
  /\ UNCHANGED <<places_n, threads, proxies_n, need_header, workers_n, started,
                 out_f, header, flushed, done, outsideMain>>

\* A finally block that is skipped when an exception is in flight.
FinallyRunsOnReturnOnly(e) == e = "none"

\* try ... finally (259, 269): the finally block runs however the try block
\* is left.
FinallyRuns(e) == TRUE

\* The with block of the executor and the try block are left.
LeavePool ==
  /\ mpc = "pool_exit"
  /\ mpc' = IF FinallyRuns(exc) THEN "flush" ELSE "raised"
  /\ UNCHANGED <<places_n, threads, proxies_n, need_header, workers_n, started,
                 out_f, header, flushed, exc, done, outsideMain>>

\* Line 270: out_f.flush().
FlushSink ==
  /\ mpc = "flush"
  /\ flushed' = TRUE
  /\ mpc' = "close"
  /\ UNCHANGED <<places_n, threads, proxies_n, need_header, workers_n, started,
                 out_f, header, exc, done, outsideMain>>

\* Line 271: out_f.close(); after the finally block the exception in flight
\* goes on, or line 273 reports completion and main returns.
CloseSink ==
  /\ mpc = "close"
  /\ out_f' = "closed"
  /\ IF exc = "none"
       THEN /\ done' = TRUE
            /\ mpc' = "returned"
       ELSE /\ done' = done
            /\ mpc' = "raised"
  /\ UNCHANGED <<places_n, threads, proxies_n, need_header, workers_n, started,
                 header, flushed, exc, outsideMain>>

MainNext ==
  \/ LoadInput
  \/ OpenSink
  \/ PlanWorkers
  \/ SubmitAll
  \/ Interrupt
  \/ LeavePool
  \/ FlushSink
  \/ CloseSink

MainSpec == MainInit /\ [][MainNext]_vars

\* ----------------------------------------------------------------------
\* Properties of main (MainSpec).

\* main has ended, by a return or by an exception.
MainEnded == mpc \in {"returned", "raised"}

\* C15: one proxy per worker. When main has run its executor section with a
\* non-empty proxy list and without an interrupt, the workers started number
\* min(requested threads, number of proxies), worker i has proxy i, and no
\* two workers have the same proxy.
C15_OneProxyPerWorker ==
  (MainEnded /\ places_n > 0 /\ proxies_n > 0 /\ exc # "KeyboardInterrupt")
    => /\ Cardinality(started) = Min(Max(1, threads), proxies_n)
       /\ \A s \in started : s[2] = s[1]
       /\ \A s, t \in started : s[2] = t[2] => s = t

\* C16: the run always ends by reporting completion. A run of main over a
\* non-empty list of places that is not interrupted ends with one run_worker
\* submitted per worker and the completion report printed.
C16_EndsByReportingCompletion ==
  (MainEnded /\ places_n > 0 /\ exc # "KeyboardInterrupt")
    => /\ done
       /\ Cardinality(started) = workers_n

\* C17: the sink is flushed and closed on every exit. Once main has opened
\* the sink and entered the executor section, it ends, by a return, an
\* exception of that section or an interrupt, with the sink flushed and
\* closed.
C17_SinkClosedOnEveryExit ==
  (MainEnded /\ workers_n > 0) => (flushed /\ out_f = "closed")

\* main was interrupted in the executor section and has ended with the sink
\* flushed and closed.
C17_Witness ==
  /\ mpc = "raised"
  /\ exc = "KeyboardInterrupt"
  /\ workers_n > 0
  /\ flushed /\ out_f = "closed"

\* C36: work distribution is a partition and each place is processed
\* exactly once per run. When a run of main over a non-empty list of places
\* has ended without an interrupt, every loaded place is in the job list of
\* exactly one run_worker that was started.
C36_EachPlaceProcessedOnce ==
  (MainEnded /\ places_n > 0 /\ exc # "KeyboardInterrupt")
    => \A p \in 1..places_n :
         Cardinality({s \in started :
                        \E j \in 1..Len(Stride(places_n, workers_n, s[1])) :
                          Stride(places_n, workers_n, s[1])[j] = p}) = 1

\* ======================================================================
\* Strings, json.dumps of a list of strings, and _parse_categories
\* (main_reviews.py 62-80).

\* The characters category strings are made of: a letter, a blank and a
\* double quote.
Chars == {"a", " ", "\""}

\* The characters str.strip() removes.
Whitespace == {" "}

RECURSIVE LStrip(_, _)
\* str.lstrip(cs).
LStrip(s, cs) == IF s # <<>> /\ Head(s) \in cs THEN LStrip(Tail(s), cs) ELSE s

RECURSIVE RStrip(_, _)
\* str.rstrip(cs).
RStrip(s, cs) ==
  IF s # <<>> /\ s[Len(s)] \in cs THEN RStrip(SubSeq(s, 1, Len(s) - 1), cs) ELSE s

\* str.strip(cs).
StripChars(s, cs) == RStrip(LStrip(s, cs), cs)

\* str.strip().
Strip(s) == StripChars(s, Whitespace)

\* Python's truth value of an Optional[str].
Truthy(v) == v # Absent /\ v # <<>>

\* a or b.
OrElse(a, b) == IF Truthy(a) THEN a ELSE b

RECURSIVE Split(_, _)
\* str.split(c) for a one-character separator.
Split(s, c) ==
  IF \E i \in 1..Len(s) : s[i] = c
    THEN LET i == CHOOSE k \in 1..Len(s) : s[k] = c /\ \A m \in 1..(k - 1) : s[m] # c
         IN  <<SubSeq(s, 1, i - 1)>> \o Split(SubSeq(s, i + 1, Len(s)), c)
    ELSE <<s>>

\* A serializer that escapes nothing.
EscapeNothing(s) == s

RECURSIVE Escape(_)
\* The body of a JSON string as json.dumps(ensure_ascii=False) writes it:
\* a double quote and a backslash get a backslash in front.
Escape(s) ==
  IF s = <<>> THEN <<>>
  ELSE (IF Head(s) \in {"\"", "\\"} THEN <<"\\", Head(s)>> ELSE <<Head(s)>>)
         \o Escape(Tail(s))

\* A JSON string.
Quote(s) == <<"\"">> \o Escape(s) \o <<"\"">>

RECURSIVE JoinQuoted(_)
\* The elements of a list, quoted, with ", " between them.
JoinQuoted(l) ==
  IF l = <<>> THEN <<>>
  ELSE IF Len(l) = 1 THEN Quote(l[1])
  ELSE Quote(Head(l)) \o <<",", " ">> \o JoinQuoted(Tail(l))

\* json.dumps(list_of_strings, ensure_ascii=False), lines 164 and 166.
Dumps(l) == <<"[">> \o JoinQuoted(l) \o <<"]">>

\* The result of a parse that failed.
ParseFail == [ok |-> FALSE, val |-> <<>>, next |-> 0]

RECURSIVE SkipWs(_, _)
\* The first position from i on that holds no JSON whitespace.
SkipWs(s, i) == IF i <= Len(s) /\ s[i] \in Whitespace THEN SkipWs(s, i + 1) ELSE i

RECURSIVE ScanString(_, _, _)
\* The JSON string whose opening quote is just before position j.
ScanString(s, j, acc) ==
  IF j > Len(s) THEN ParseFail
  ELSE IF s[j] = "\"" THEN [ok |-> TRUE, val |-> acc, next |-> j + 1]
  ELSE IF s[j] = "\\"
    THEN IF j + 1 <= Len(s) /\ s[j + 1] \in {"\"", "\\"}
           THEN ScanString(s, j + 2, Append(acc, s[j + 1]))
           ELSE ParseFail
  ELSE ScanString(s, j + 1, Append(acc, s[j]))

RECURSIVE ScanElements(_, _, _)
\* The elements of a JSON array of strings from position i on, up to the
\* closing bracket, which must end the text.
ScanElements(s, i, acc) ==
  IF i > Len(s) \/ s[i] # "\"" THEN ParseFail
  ELSE LET str == ScanString(s, i + 1, <<>>)
       IN  IF ~str.ok THEN ParseFail
           ELSE LET k == SkipWs(s, str.next)
                IN  IF k > Len(s) THEN ParseFail
                    ELSE IF s[k] = "," THEN ScanElements(s, SkipWs(s, k + 1), Append(acc, str.val))
                    ELSE IF s[k] = "]" /\ SkipWs(s, k + 1) > Len(s)
                      THEN [ok |-> TRUE, val |-> Append(acc, str.val), next |-> k + 1]
                    ELSE ParseFail

\* json.loads(s) followed by isinstance(arr, list) (lines 68-69), for texts
\* that are arrays of strings; any other text gives ok = FALSE.
LoadsList(s) ==
  LET i == SkipWs(s, 1)
  IN  IF i > Len(s) \/ s[i] # "[" THEN ParseFail
      ELSE LET j == SkipWs(s, i + 1)
           IN  IF j <= Len(s) /\ s[j] = "]" /\ SkipWs(s, j + 1) > Len(s)
                 THEN [ok |-> TRUE, val |-> <<>>, next |-> j + 1]
                 ELSE ScanElements(s, j, <<>>)

\* A string that is not empty.
NonEmpty(x) == x # <<>>

\* Line 70: [str(x).strip() for x in arr if str(x).strip()].
Cleaned(arr) == SelectSeq([i \in 1..Len(arr) |-> Strip(arr[i])], NonEmpty)

\* Lines 77-79: the parts of the fallback form.
FallbackParts(s2) ==
  LET parts == Split(s2, ",")
  IN  SelectSeq([i \in 1..Len(parts) |->
                   StripChars(StripChars(Strip(parts[i]), {"\""}), {"'"})],
                NonEmpty)

\* tuple(xs) if xs else None.
TupleOrNone(xs) == IF xs # <<>> THEN SomeCategories(xs) ELSE NoCategories

\* _parse_categories, lines 62-80.
ParseCategories(val) ==
  IF ~Truthy(val) THEN NoCategories
  ELSE LET s == Strip(val)
           arr == LoadsList(s)
       IN  IF arr.ok THEN TupleOrNone(Cleaned(arr.val))
           ELSE LET s2 == StripChars(Strip(s), {"[", "]"})
                IN  IF s2 = <<>> THEN NoCategories
                    ELSE TupleOrNone(FallbackParts(s2))

\* ======================================================================
\* load_places (main_reviews.py 82-109), one step per row of the reader.

\* The variables the specification of load_places leaves alone.
outsideLoad == <<sessionVars, poolVars, mainVars, catVars, dateVars, openVars, cardVars, findVars>>

\* The texts tried in each column: absent, blank, with a blank at the end
\* or the start, a JSON array and the comma form.
ColumnValues(c) ==
  CASE c = "place_id" -> {Absent, <<" ">>, <<"p", " ">>}
    [] c = "Place ID" -> {Absent, <<"q">>}
    [] c = "name" -> {Absent, <<" ">>, <<" ", "a">>}
    [] c = "Place" -> {Absent, <<"b">>}
    [] c = "Place Name" -> {Absent, <<"c">>}
    [] c = "Categories" -> {Absent, Dumps(<< <<"a">>, <<"b", " ">> >>),
                            <<"a", ",", " ", "b">>}

\* The rows a reader can give.
CsvRows ==
  {[c \in Columns |->
      CASE c = "place_id" -> v1 [] c = "Place ID" -> v2 [] c = "name" -> v3
        [] c = "Place" -> v4 [] c = "Place Name" -> v5 [] c = "Categories" -> v6] :
     v1 \in ColumnValues("place_id"), v2 \in ColumnValues("Place ID"),
     v3 \in ColumnValues("name"), v4 \in ColumnValues("Place"),
     v5 \in ColumnValues("Place Name"), v6 \in ColumnValues("Categories")}

\* Line 84: place_id.
RowPlaceId(r) == Strip(OrElse(OrElse(r["place_id"], r["Place ID"]), <<>>))

\* Line 85: name.
RowName(r) == Strip(OrElse(OrElse(r["name"], r["Place"]), <<>>))

\* Lines 91-92: categories. The file has no column "categories".
RowCategories(r) ==
  ParseCategories(OrElse(Strip(OrElse(OrElse(Absent, r["Categories"]), <<>>)), Absent))

\* A guard that only asks for the identifier.
KeepsIdOnly(pid, nm) == pid # <<>>

\* Line 94: if place_id and name.
Keeps(pid, nm) == pid # <<>> /\ nm # <<>>

\* Place.__post_init__ (model.py 24-28) raises ValueError.
PlaceRejects(pid, nm) == pid = <<>> \/ nm = <<>>

\* load_places is called on some file.
LoadInit ==
  /\ lpc = "rows"
  /\ row = [c \in Columns |-> Absent]
  /\ nread = 0
  /\ places = <<>>
  /\ CatIdle
  /\ SessionIdle
  /\ PoolIdle
  /\ MainIdle
  /\ DateIdle
  /\ OpenIdle
  /\ CardIdle
  /\ FindIdle

\* One turn of the for loop of line 83: the reader gives a row; the row is
\* appended as a Place (95-102) or skipped (103-106). A Place that its
\* constructor rejects ends load_places with ValueError.
ReadRow ==
  /\ lpc = "rows"
  /\ nread < MaxCsvRows
  /\ \E r \in CsvRows :
       /\ row' = r
       /\ IF Keeps(RowPlaceId(r), RowName(r))
            THEN IF PlaceRejects(RowPlaceId(r), RowName(r))
                   THEN /\ lpc' = "raised"
                        /\ places' = places
                   ELSE /\ lpc' = lpc
                        /\ places' = Append(places, [place_id |-> RowPlaceId(r),
                                                     name |-> RowName(r),
                                                     categories |-> RowCategories(r)])
            ELSE /\ lpc' = lpc
                 /\ places' = places
  /\ nread' = nread + 1
  /\ UNCHANGED outsideLoad

\* The reader is at the end of the file: return places (line 108).
LoadReturn ==
  /\ lpc = "rows"
  /\ lpc' = "returned"
  /\ UNCHANGED <<row, nread, places, outsideLoad>>

LoadNext ==
  \/ ReadRow
  \/ LoadReturn

LoadSpec == LoadInit /\ [][LoadNext]_vars

\* ----------------------------------------------------------------------
\* Properties of load_places (LoadSpec).

\* C18: load_places is alias-tolerant for the name column. For a file of one
\* row without a name column whose "Place Name" and "Place ID" hold text,
\* load_places returns one Place, named by "Place Name", identified by
\* "Place ID", with the JSON array of "Categories" as its ordered tuple.
C18_PlaceNameAlias ==
  (/\ lpc = "returned" /\ nread = 1
   /\ row["name"] = Absent /\ row["Place"] = Absent /\ row["place_id"] = Absent
   /\ row["Place Name"] = <<"c">> /\ row["Place ID"] = <<"q">>
   /\ row["Categories"] = Dumps(<< <<"a">>, <<"b", " ">> >>))
    => /\ Len(places) = 1
       /\ places[1].name = <<"c">>
       /\ places[1].place_id = <<"q">>
       /\ places[1].categories = SomeCategories(<< <<"a">>, <<"b">> >>)

outsideCat == <<sessionVars, poolVars, mainVars, loadVars, dateVars, openVars, cardVars, findVars>>

\* Non-empty strings of up to MaxStrLen characters.
CatStrings == UNION {[1..n -> Chars] : n \in 1..MaxStrLen}

\* Ordered lists of up to MaxListLen such strings.
CatLists == UNION {[1..n -> CatStrings] : n \in 0..MaxListLen}

\* A place carries some list of categories.
CatInit ==
  /\ cpc = "dump"
  /\ cat_in \in CatLists
  /\ cat_text = <<>>
  /\ cat_out = NoCategories
  /\ LoadIdle
  /\ SessionIdle
  /\ PoolIdle
  /\ MainIdle
  /\ DateIdle
  /\ OpenIdle
  /\ CardIdle
  /\ FindIdle

\* Lines 163-166: json.dumps(list(cats), ensure_ascii=False).
DumpCategories ==
  /\ cpc = "dump"
  /\ cat_text' = Dumps(cat_in)
  /\ cpc' = "parse"
  /\ UNCHANGED <<cat_in, cat_out, outsideCat>>

\* Lines 91-92: the text of the column is stripped, turned to None when
\* empty, and parsed.
ParseBack ==
  /\ cpc = "parse"
  /\ cat_out' = ParseCategories(OrElse(Strip(OrElse(cat_text, <<>>)), Absent))
  /\ cpc' = "done"
  /\ UNCHANGED <<cat_in, cat_text, outsideCat>>

CatNext ==
  \/ DumpCategories
  \/ ParseBack

CatSpec == CatInit /\ [][CatNext]_vars

\* ----------------------------------------------------------------------
\* Properties of the category round trip (CatSpec).

\* The string has a blank at neither end.
Trimmed(x) == x[1] \notin Whitespace /\ x[Len(x)] \notin Whitespace

\* C20 as stated: every ordered list of non-empty strings, written as JSON
\* and parsed back, gives the same strings in the same order.
C20_RoundTripAlways ==
  cpc = "done" => (~cat_out.is_none /\ cat_out.items = cat_in)

\* C20: category round trip. Every non-empty ordered list of non-empty
\* strings that neither start nor end with white space, written as JSON and
\* parsed back, gives the same strings in the same order.
C20_RoundTrip ==
  (/\ cpc = "done"
   /\ cat_in # <<>>
   /\ \A i \in 1..Len(cat_in) : Trimmed(cat_in[i]))
    => (~cat_out.is_none /\ cat_out.items = cat_in)

\* Two different categories, one of them two characters long and starting
\* with a double quote, have come back as they were.
C20_Witness ==
  /\ cpc = "done"
  /\ Len(cat_in) = 2
  /\ \E i \in 1..2 : Len(cat_in[i]) = 2 /\ cat_in[i][1] = "\""
  /\ cat_in[1] # cat_in[2]
  /\ \A i \in 1..2 : Trimmed(cat_in[i])
  /\ cat_out = SomeCategories(cat_in)

\* ======================================================================
\* _rel_to_iso (scrape_reviews.py 77-91). A date text is the sequence of its
\* words; a word is a run of digits, given by its value n, or a word w of
\* letters. Cyrillic words are written in Latin letters after "ru:".

\* The variables the specification of _rel_to_iso leaves alone.
outsideDate == <<sessionVars, poolVars, mainVars, loadVars, catVars, openVars, cardVars, findVars>>

Word(w) == [w |-> w, n |-> -1]
Number(n) == [w |-> "#", n |-> n]

\* A magnitude beyond the range of datetime in every unit.
Huge == 2000000000

\* The words and numbers date texts are made of: a word of every branch,
\* one with a capital, one that no pattern matches ("ru:dney", the genitive
\* plural of day), and the numbers 0, 2 and Huge.
DateTokens ==
  {Word("yesterday"), Word("mins"), Word("hour"), Word("Days"), Word("weeks"),
   Word("month"), Word("years"), Word("ago"), Word("ru:dney"),
   Number(0), Number(2), Number(Huge)}

\* Date texts of up to MaxWords words.
DateTexts == UNION {[1..k -> DateTokens] : k \in 0..MaxWords}

\* The values of now: a present-day one and datetime.min, as minutes since
\* datetime.min with the calendar year and month.
Nows ==
  {[minutes |-> 1064000000, year |-> 2024, month |-> 3],
   [minutes |-> 0, year |-> 1, month |-> 1]}

\* str.lower() on the words of DateTokens.
Lower(w) == IF w = "Days" THEN "days" ELSE w

\* Line 80: raw.strip().lower().
Lowered(r) == [i \in 1..Len(r) |-> [w |-> Lower(r[i].w), n |-> r[i].n]]

\* Lines 81-83: num, the first run of digits, 1 without one.
Num(s) ==
  IF \E i \in 1..Len(s) : s[i].w = "#"
    THEN s[CHOOSE i \in 1..Len(s) :
             s[i].w = "#" /\ \A j \in 1..(i - 1) : s[j].w # "#"].n
    ELSE 1

\* Line 84: "yesterday" in s or its Russian word in s.
YesterdayWords == {"yesterday", "ru:vchera"}

\* The units in the order of lines 85-90.
Units == <<"minutes", "hours", "days", "weeks", "months", "years">>

\* The alternatives of the pattern of each unit, lines 85-90.
UnitWords(u) ==
  CASE u = "minutes" -> {"min", "mins", "minute", "minutes",
                         "ru:min", "ru:minut", "ru:minuta", "ru:minuty"}
    [] u = "hours" -> {"hour", "hours", "ru:chas", "ru:chasa", "ru:chaso", "ru:chasv"}
    [] u = "days" -> {"day", "days", "ru:dn", "ru:dne", "ru:dnya"}
    [] u = "weeks" -> {"week", "weeks", "ru:nedelya", "ru:nedeli", "ru:nedel"}
    [] u = "months" -> {"month", "months", "ru:mesya", "ru:mesc", "ru:mesyaa",
                        "ru:mesyac", "ru:mesyae", "ru:mesyav", "ru:mesca",
                        "ru:mescc", "ru:mesce", "ru:mescv"}
    [] u = "years" -> {"year", "years", "ru:god", "ru:goda", "ru:let"}

\* re.search(r"\b(...)\b", s): some word of s is one of the alternatives.
HasWord(s, ws) == \E i \in 1..Len(s) : s[i].w \in ws

\* Minutes in a unit of fixed length.
UnitMinutes(u) ==
  CASE u = "minutes" -> 1 [] u = "hours" -> 60 [] u = "days" -> 1440
    [] u = "weeks" -> 10080

\* The call raised (ValueError or OverflowError of the datetime arithmetic).
Raised == [kind |-> "raise", minutes |-> 0, months |-> 0]

\* A timestamp: now moved back by calendar months and then by minutes.
Time(m, mo) == [kind |-> "time", minutes |-> m, months |-> mo]

\* (now - relativedelta(unit=k)).isoformat(): the timestamp, or the
\* exception of a result before datetime.min.
Minus(t, u, k) ==
  CASE u = "years" ->
         IF t.year - k < 1 THEN Raised ELSE Time(t.minutes, 12 * k)
    [] u = "months" ->
         IF t.year * 12 + (t.month - 1) - k < 12 THEN Raised
         ELSE Time(t.minutes, k)
    [] OTHER ->
         IF k > t.minutes \div UnitMinutes(u) THEN Raised
         ELSE Time(t.minutes - k * UnitMinutes(u), 0)

RECURSIVE FirstUnit(_, _)
\* Lines 85-91: the first unit, from position i of Units on, whose pattern
\* matches; "none" when no pattern matches.
FirstUnit(s, i) ==
  IF i > Len(Units) THEN "none"
  ELSE IF HasWord(s, UnitWords(Units[i])) THEN Units[i]
  ELSE FirstUnit(s, i + 1)

\* _rel_to_iso(raw, now), lines 77-91.
RelToIso(r, t) ==
  IF r = <<>> THEN NoDate
  ELSE LET s == Lowered(r)
           u == FirstUnit(s, 1)
       IN  IF HasWord(s, YesterdayWords) THEN Minus(t, "days", 1)
           ELSE IF u = "none" THEN NoDate
           ELSE Minus(t, u, Num(s))

\* _rel_to_iso is called on some text and some now.
DateInit ==
  /\ dpc = "call"
  /\ raw \in DateTexts
  /\ dnow \in Nows
  /\ dres = NoDate
  /\ SessionIdle
  /\ PoolIdle
  /\ MainIdle
  /\ LoadIdle
  /\ CatIdle
  /\ OpenIdle
  /\ CardIdle
  /\ FindIdle

\* The call runs to its return or to its exception.
Normalize ==
  /\ dpc = "call"
  /\ dres' = RelToIso(raw, dnow)
  /\ dpc' = "done"
  /\ UNCHANGED <<raw, dnow, outsideDate>>

DateNext ==
  \/ Normalize

DateSpec == DateInit /\ [][DateNext]_vars

\* ----------------------------------------------------------------------
\* Properties of _rel_to_iso (DateSpec).

\* The text names "yesterday".
SaysYesterday == \E i \in 1..Len(raw) : Lower(raw[i].w) \in YesterdayWords

\* The unit the text names, "none" if it names none.
StatedUnit == FirstUnit(Lowered(raw), 1)

\* The magnitude the text states.
StatedMagnitude == Num(raw)

\* C21: date normalization. For a text that names yesterday the result is
\* now minus one day; otherwise, for a text that names a unit, it is now
\* minus the stated magnitude of that unit, 1 when the text has no number;
\* for every other text it is None.
C21_DateNormalization ==
  dpc = "done" =>
    IF SaysYesterday
      THEN /\ dres.kind = "time" /\ dres.months = 0
           /\ dnow.minutes - dres.minutes = 1440
    ELSE IF StatedUnit = "none" THEN dres = NoDate
    ELSE IF StatedUnit = "years"
      THEN /\ dres.kind = "time" /\ dres.minutes = dnow.minutes
           /\ dres.months \div 12 = StatedMagnitude /\ dres.months % 12 = 0
    ELSE IF StatedUnit = "months"
      THEN /\ dres.kind = "time" /\ dres.minutes = dnow.minutes
           /\ dres.months = StatedMagnitude
    ELSE /\ dres.kind = "time" /\ dres.months = 0
         /\ (dnow.minutes - dres.minutes) \div UnitMinutes(StatedUnit) = StatedMagnitude
         /\ (dnow.minutes - dres.minutes) % UnitMinutes(StatedUnit) = 0

\* C22: the date normalizer never raises. Every call returns a timestamp or
\* None.
C22_NeverRaises ==
  dpc = "done" => dres.kind \in {"time", "none"}

\* ======================================================================
\* Session start: navigation, review surface, first container
\* (scrape_reviews.py, scrape_place_reviews lines 472-568)
\* ======================================================================

outsideOpen == <<sessionVars, poolVars, mainVars, loadVars, catVars, dateVars, cardVars, findVars>>

\* A page.goto call that returned (line 476).
Loaded == <<"loaded">>

\* Messages of the exceptions page.goto raises, as sequences of fragments:
\* a Chromium tunnel error, a timeout, another Chromium network error, a
\* proxy's own wording, a message naming a tunnel without a failure, and an
\* empty message.
NavErrors ==
  { <<"net::", "ERR", "_", "TUNNEL", "_", "CONNECTION", "_", "FAILED">>,
    <<"Timeout", " ", "exceeded">>,
    <<"net::", "ERR", "_", "ABORTED">>,
    <<"Tunnel", " ", "setup", " ", "failed">>,
    <<"proxy", " ", "tunnel", " ", "closed">>,
    <<>> }

\* Line 67: str.lower, fragment by fragment.
LowerAtom(a) ==
  CASE a = "ERR" -> "err"
    [] a = "TUNNEL" -> "tunnel"
    [] a = "Tunnel" -> "tunnel"
    [] a = "CONNECTION" -> "connection"
    [] a = "FAILED" -> "failed"
    [] a = "ABORTED" -> "aborted"
    [] a = "Timeout" -> "timeout"
    [] OTHER -> a

\* Line 67: s = (msg or "").lower().
LowerMsg(m) == [i \in 1..Len(m) |-> LowerAtom(m[i])]

\* Python's "sub in s" on strings.
In(sub, s) ==
  \E i \in 0..(Len(s) - Len(sub)) : \A j \in 1..Len(sub) : s[i + j] = sub[j]

\* Lines 66-70: _is_proxy_tunnel_error.
IsProxyTunnelError(msg) ==
  LET s == LowerMsg(msg)
  IN  \/ In(<<"err", "_", "tunnel", "_", "connection", "_", "failed">>, s)
      \/ In(<<"net::", "err">>, s)
      \/ (In(<<"tunnel">>, s) /\ In(<<"failed">>, s))

\* Line 474, range(1, 4): the number of navigation attempts.
NavAttempts == 3

\* The loop of line 474 going on to a fourth attempt.
LastAttemptFourth(a) == a = 4

\* Lines 474 and 488: the attempt after which the for statement is
\* exhausted and its else clause runs.
LastAttempt(a) == a = NavAttempts

\* Line 185, range(1, 4): the number of attempts to open the review surface.
OpenAttempts == 3

\* Line 487: random.uniform(0, 0.3), its two ends, in tenths of a second.
Jitter == {0, 3}

\* Line 486: the error raised for a failure classified as a tunnel failure.
TunnelError ==
  [type |-> "RuntimeError",
   msg |-> <<"Proxy tunnel error (ERR_TUNNEL_CONNECTION_FAILED)">>]

\* Line 489: the error raised after the last attempt, carrying last_err.
NavigationError(e) ==
  [type |-> "RuntimeError", msg |-> <<"ru:Ne udalos' otkryt' stranitsu: ">> \o e]

\* Line 493.
UiError == [type |-> "RuntimeError", msg |-> <<"Reviews UI not visible.">>]

\* Line 568.
ContainerError ==
  [type |-> "RuntimeError",
   msg |-> <<"ru:Ne nayden skroll-konteyner spiska otzyvov.">>]

\* Line 492 without its first conjunct: the session goes on regardless.
UiNotVisibleNever(o, f) == FALSE

\* Line 492: not opened and not FALLBACK_TO_SIDEPANEL.
UiNotVisible(o, f) == ~o /\ ~f

\* The state at line 472: nothing attempted yet.
OpenInit ==
  /\ opc = "goto"
  /\ nav_attempt = 1
  /\ gotos = <<>>
  /\ last_err = Absent
  /\ nav_slept = 0
  /\ fallback \in BOOLEAN
  /\ open_attempt = 0
  /\ clicks = 0
  /\ opened = FALSE
  /\ lookups = 0
  /\ found = None
  /\ oexc = NotRaised
  /\ SessionIdle
  /\ PoolIdle
  /\ MainIdle
  /\ LoadIdle
  /\ CatIdle
  /\ DateIdle
  /\ CardIdle
  /\ FindIdle

\* Lines 474-489: one iteration of the navigation loop, with the else
\* clause of the for statement when it was the last one.
\* _handle_google_consent (118-143) guards every call and cannot raise.
Goto ==
  /\ opc = "goto"
  /\ \E r \in {Loaded} \cup NavErrors, j \in Jitter :
       /\ gotos' = Append(gotos, r)
       /\ IF r = Loaded
          THEN /\ opc' = "open"
               /\ open_attempt' = 1
               /\ UNCHANGED <<nav_attempt, last_err, nav_slept, oexc>>
          ELSE /\ last_err' = r
               /\ UNCHANGED open_attempt
               /\ IF IsProxyTunnelError(r)
                  THEN /\ opc' = "raised"
                       /\ oexc' = TunnelError
                       /\ UNCHANGED <<nav_attempt, nav_slept>>
                  ELSE /\ nav_slept' = nav_slept + 7 * nav_attempt + j
                       /\ IF LastAttempt(nav_attempt)
                          THEN /\ opc' = "raised"
                               /\ oexc' = NavigationError(r)
                               /\ UNCHANGED nav_attempt
                          ELSE /\ opc' = "goto"
                               /\ nav_attempt' = nav_attempt + 1
                               /\ UNCHANGED oexc
  /\ UNCHANGED <<fallback, clicks, opened, lookups, found>>
  /\ UNCHANGED outsideOpen

\* Lines 491-493 after _force_all_reviews_dialog returned o.
AfterOpen(o) ==
  /\ opened' = o
  /\ IF UiNotVisible(o, fallback)
     THEN /\ opc' = "raised"
          /\ oexc' = UiError
     ELSE /\ opc' = "find"
          /\ UNCHANGED oexc

\* Lines 185-202: one iteration of _force_all_reviews_dialog. c1 and c2 are
\* the results of _click_all_reviews_if_present (145-182, which cannot
\* raise), tab the fate of the reviews tab (190-197).
OpenAttempt ==
  /\ opc = "open"
  /\ \E c1 \in BOOLEAN, tab \in {"absent", "visible", "raises"}, c2 \in BOOLEAN :
       LET second == ~c1 /\ tab = "visible"
           ok == c1 \/ (second /\ c2)
       IN  /\ clicks' = clicks + 1 + (IF second THEN 1 ELSE 0)
           /\ IF ok
              THEN /\ AfterOpen(TRUE)
                   /\ UNCHANGED open_attempt
              ELSE IF open_attempt = OpenAttempts
                   THEN /\ opc' = "visible"
                        /\ UNCHANGED <<open_attempt, opened, oexc>>
                   ELSE /\ opc' = "open"
                        /\ open_attempt' = open_attempt + 1
                        /\ UNCHANGED <<opened, oexc>>
  /\ UNCHANGED <<nav_attempt, gotos, last_err, nav_slept, fallback, lookups, found>>
  /\ UNCHANGED outsideOpen

\* Lines 203-208: the last look for a visible review card, then 491-493.
OpenVisible ==
  /\ opc = "visible"
  /\ \E v \in {"visible", "hidden", "raises"} : AfterOpen(v = "visible")
  /\ UNCHANGED <<nav_attempt, gotos, last_err, nav_slept, fallback,
                 open_attempt, clicks, lookups, found>>
  /\ UNCHANGED outsideOpen

\* Lines 563-565: the first lookup; _close_overlays when it found nothing.
\* Lines 494-561 (translation, ordering, title, total, coordinates) guard
\* every call and cannot raise.
Find ==
  /\ opc = "find"
  /\ \E c \in Elems \cup {None} :
       /\ found' = c
       /\ opc' = IF c = None THEN "refind" ELSE "loop"
  /\ lookups' = lookups + 1
  /\ UNCHANGED <<nav_attempt, gotos, last_err, nav_slept, fallback,
                 open_attempt, clicks, opened, oexc>>
  /\ UNCHANGED outsideOpen

\* Lines 566-568: the second lookup and the error when it finds nothing.
Refind ==
  /\ opc = "refind"
  /\ \E c \in Elems \cup {None} :
       /\ found' = c
       /\ IF c = None
          THEN /\ opc' = "raised"
               /\ oexc' = ContainerError
          ELSE /\ opc' = "loop"
               /\ UNCHANGED oexc
  /\ lookups' = lookups + 1
  /\ UNCHANGED <<nav_attempt, gotos, last_err, nav_slept, fallback,
                 open_attempt, clicks, opened>>
  /\ UNCHANGED outsideOpen

OpenNext == Goto \/ OpenAttempt \/ OpenVisible \/ Find \/ Refind

OpenSpec == OpenInit /\ [][OpenNext]_vars

\* ----------------------------------------------------------------------
\* Properties of the session start
\* ----------------------------------------------------------------------

\* The last page.goto call made failed.
LastGotoFailed == gotos # <<>> /\ gotos[Len(gotos)] # Loaded

\* C27: navigation makes at most 3 page loads and none after a successful
\* one; when the third fails the session fails; a generic failure is
\* raised only after the third failed load; and a failure classified as a
\* tunnel failure raises an error that differs from the generic one.
C27_Navigation ==
  /\ Len(gotos) <= 3
  /\ \A i \in 1..(Len(gotos) - 1) : gotos[i] # Loaded
  /\ (Len(gotos) = 3 /\ LastGotoFailed) => opc = "raised"
  /\ (opc = "raised" /\ LastGotoFailed) =>
       /\ TunnelError # NavigationError(last_err)
       /\ last_err = gotos[Len(gotos)]
       /\ IF IsProxyTunnelError(last_err)
          THEN oexc = TunnelError
          ELSE oexc = NavigationError(last_err) /\ Len(gotos) = 3

\* A session whose three page loads all failed with generic errors.
C27_Witness ==
  /\ opc = "raised"
  /\ Len(gotos) = 3
  /\ oexc = NavigationError(last_err)
  /\ ~IsProxyTunnelError(last_err)

\* The review surface was given up on: _force_all_reviews_dialog returned
\* False after its attempts.
NeverOpened ==
  /\ gotos # <<>> /\ gotos[Len(gotos)] = Loaded
  /\ opc \in {"find", "refind", "loop", "raised"}
  /\ ~opened

\* C28: the review surface is tried a bounded number of times and the
\* container looked up at most twice; when the surface never opened and
\* the sidepanel fallback is off, or both lookups found nothing, the
\* session has raised its error; the scroll loop is reached only with an
\* opened surface (or the fallback) and a container; and a session that
\* raised stays so.
C28_UiDesync ==
  /\ [](/\ open_attempt <= 3 /\ clicks <= 6 /\ lookups <= 2
        /\ (NeverOpened /\ ~fallback) => (opc = "raised" /\ oexc = UiError)
        /\ (lookups = 2 /\ found = None) => (opc = "raised" /\ oexc = ContainerError)
        /\ opc = "loop" => ((opened \/ fallback) /\ found # None))
  /\ [][opc = "raised" => opc' = "raised"]_vars

\* The surface never opened after all six clicks, with the fallback off.
C28_Witness == NeverOpened /\ ~fallback /\ clicks = 6 /\ oexc = UiError

\* ======================================================================
\* Extraction of one card (scrape_reviews.py, scrape_place_reviews 627-750)
\* ======================================================================

outsideCard == <<sessionVars, poolVars, mainVars, loadVars, catVars, dateVars, openVars, findVars>>

\* A thumbnail address: one with a /p/<id> path, and one without.
PhotoUrl(k, i, sz) == [kind |-> k, id |-> i, size |-> sz]

\* Lines 73-75: _normalize_photo rewrites an address with a /p/<id> path
\* to its full-size form and leaves any other as it is.
NormalizePhoto(u) == IF u.kind = "p" THEN PhotoUrl("p", u.id, "=s0") ELSE u

\* The thumbnails of a card: twice the same picture in two sizes, or two
\* pictures.
ThumbLists ==
  { <<PhotoUrl("p", "A", "=w100"), PhotoUrl("p", "A", "=w200")>>,
    <<PhotoUrl("p", "A", "=w100"), PhotoUrl("other", "B", "=w100")>> }

\* The answers on the photo strip (701-709): the thumbnails, and the query
\* that raises: 0 is thumbs.count(), j the attribute read of thumbnail j,
\* Len + 1 none.
PhotoCases == {[thumbs |-> l, fail |-> f] : l \in ThumbLists, f \in 0..3}

\* The answers on the date element (682-685): its text, or a raising query.
DateCases ==
  {[el |-> "ok", txt |-> t] :
     t \in { <<Word("yesterday")>>, <<Number(2), Word("weeks"), Word("ago")>>,
             <<Number(Huge), Word("years"), Word("ago")>>, <<Word("ru:dney")>> }}
  \cup {[el |-> "raises", txt |-> <<>>]}

\* A captured response (456-469): its name and the strings its
\* serialization contains.
Blob(b, has) == [name |-> b, has |-> has]

\* raw_blobs: none, one holding the identifier, one holding the author's
\* name before one holding the identifier.
BlobLists ==
  { <<>>,
    <<Blob("b1", {"r1"})>>,
    <<Blob("b1", {"Alice"}), Blob("b2", {"r1"})>> }

\* The answers of the page to the queries of lines 643-725 on one card.
Cards ==
  [span : {"ok", "raises"},
   link : {"relative", "absolute", "url raises", "missing"},
   alt : {"ok", "raises"},
   photo : {"ok", "raises"},
   rating : {"4,5", ".", "missing"},
   date : DateCases,
   text : {"ok", "raises"},
   lg : {"yes", "raises"},
   photos : PhotoCases,
   blobs : BlobLists]

\* datetime.now(timezone.utc), the default of _rel_to_iso's now (line 79).
CardNow == [minutes |-> 1064000000, year |-> 2024, month |-> 3]

\* Lines 643-664: the author's name from the name span, else from the
\* contributor link (whose text is read before its address), else from the
\* alt text of the avatar.
AuthorOf(c) ==
  IF c.span = "ok" THEN <<"Alice">>
  ELSE IF c.link # "missing" THEN <<"Alice">>
  ELSE IF c.alt = "ok" THEN <<"Alice">>
  ELSE Absent

\* Lines 648-656: the contributor address, read only when the name span
\* gave no name; a relative one is made absolute.
AuthorUrlOf(c) ==
  IF c.span = "ok" THEN Absent
  ELSE IF c.link = "relative" THEN <<"https://www.google.com", "/maps/contrib/7">>
  ELSE IF c.link = "absolute" THEN <<"https://www.google.com/maps/contrib/7">>
  ELSE Absent

\* Lines 666-670.
AuthorPhotoOf(c) == IF c.photo = "ok" THEN <<"https://lh3.googleusercontent.com/a/x">> ELSE Absent

\* Lines 672-679: the first run of digits, dots and commas of the label as
\* a float with the comma read as a dot; float(".") raises ValueError.
RatingOf(c) == IF c.rating = "4,5" THEN <<"4.5">> ELSE Absent

\* Lines 681-685: _rel_to_iso on the text of the date element, date_iso
\* left None when the query or the call raises.
DateOf(c) ==
  IF c.date.el = "raises" THEN NoDate
  ELSE LET d == RelToIso(c.date.txt, CardNow)
       IN  IF d.kind = "raise" THEN NoDate ELSE d

\* Lines 687-694.
TextOf(c) == IF c.text = "ok" THEN <<"Nice">> ELSE Absent

\* Lines 696-698.
IsLocalGuideOf(c) == c.lg = "yes"

RECURSIVE Dedup(_)
\* Line 708: list(dict.fromkeys(photos)), the first occurrences in order.
Dedup(s) ==
  IF s = <<>> THEN <<>>
  ELSE LET d == Dedup(SubSeq(s, 1, Len(s) - 1))
           x == s[Len(s)]
       IN  IF \E i \in 1..Len(d) : d[i] = x THEN d ELSE Append(d, x)

\* Lines 700-709: the normalized addresses of the thumbnails read before a
\* query raised, without duplicates only when none raised (line 708 is
\* inside the try).
PhotosOf(c) ==
  LET n == IF c.photos.fail = 0 THEN 0
           ELSE Min(c.photos.fail - 1, Len(c.photos.thumbs))
      read == [i \in 1..n |-> NormalizePhoto(c.photos.thumbs[i])]
  IN  IF c.photos.fail <= Len(c.photos.thumbs) THEN read ELSE Dedup(read)

\* Lines 716-721: the blob's serialization contains the identifier, the
\* start of the text or the author's name.
BlobMatches(b, r, text, author) ==
  \/ r # "" /\ r \in b.has
  \/ text # Absent /\ text[1] \in b.has
  \/ author # Absent /\ author[1] \in b.has

\* Lines 711-725: the first captured response that matches, None without.
RawMatchOf(c, r) ==
  LET hit == {i \in 1..Len(c.blobs) :
                BlobMatches(c.blobs[i], r, TextOf(c), AuthorOf(c))}
  IN  IF hit = {} THEN Absent
      ELSE <<c.blobs[CHOOSE i \in hit : \A j \in hit : i <= j].name>>

\* Lines 727-741: the fields of the row read from the card; the others
\* are the same for every row of the session.
RowOf(c, r) ==
  [rid |-> r,
   rating |-> RatingOf(c),
   date |-> DateOf(c),
   author |-> AuthorOf(c),
   author_url |-> AuthorUrlOf(c),
   author_photo |-> AuthorPhotoOf(c),
   is_lg |-> IsLocalGuideOf(c),
   text |-> TextOf(c),
   photos |-> PhotosOf(c),
   raw |-> RawMatchOf(c, r)]

\* A failed date query reaches the handler of the card.
CardRaisesOnDate(c) == c.date.el = "raises"

\* Lines 629-750: whether an exception reaches the handler at 747. Every
\* query between 629 and 725 has its own try, and 727-746 cannot raise.
CardRaises(c) == FALSE

\* A new identifier is about to be extracted (line 627).
CardInit ==
  /\ kpc = "card"
  /\ card \in Cards
  /\ crid = "r1"
  /\ crows = <<>>
  /\ cseen = {}
  /\ SessionIdle
  /\ PoolIdle
  /\ MainIdle
  /\ LoadIdle
  /\ CatIdle
  /\ DateIdle
  /\ OpenIdle
  /\ FindIdle

\* Lines 628-750: one pass of the for loop.
ExtractCard ==
  /\ kpc = "card"
  /\ IF CardRaises(card)
     THEN UNCHANGED <<crows, cseen>>
     ELSE /\ crows' = Append(crows, RowOf(card, crid))
          /\ cseen' = cseen \cup {crid}
  /\ kpc' = "done"
  /\ UNCHANGED <<card, crid, outsideCard>>

CardNext ==
  \/ ExtractCard

CardSpec == CardInit /\ [][CardNext]_vars

\* ----------------------------------------------------------------------
\* Properties of the extraction of one card
\* ----------------------------------------------------------------------

\* Every way of finding the author's name failed.
AuthorFailed == card.span # "ok" /\ card.link = "missing" /\ card.alt # "ok"

\* The date element could not be read, or its text was not turned into a
\* timestamp.
DateFailed ==
  \/ card.date.el = "raises"
  \/ RelToIso(card.date.txt, CardNow).kind # "time"

\* A query on the photo strip raised.
PhotosFailed == card.photos.fail <= Len(card.photos.thumbs)

\* The row is appended with the identifier, which is marked seen, and
\* every field other than the photo list is null or False exactly when its
\* extraction failed.
RowAppendedFieldwise ==
  /\ Len(crows) = 1
  /\ crows[1].rid = crid
  /\ crid \in cseen
  /\ (crows[1].author = Absent) <=> AuthorFailed
  /\ (crows[1].author_photo = Absent) <=> (card.photo # "ok")
  /\ (crows[1].rating = Absent) <=> (card.rating # "4,5")
  /\ (crows[1].date = NoDate) <=> DateFailed
  /\ (crows[1].text = Absent) <=> (card.text # "ok")
  /\ crows[1].is_lg <=> (card.lg = "yes")
  /\ (\A i \in 1..Len(card.blobs) : crid \notin card.blobs[i].has
                                     /\ "Nice" \notin card.blobs[i].has
                                     /\ "Alice" \notin card.blobs[i].has)
       => crows[1].raw = Absent
  /\ ~PhotosFailed => crows[1].photos # <<>>

outsideFind == <<sessionVars, poolVars, mainVars, loadVars, catVars, dateVars, openVars, cardVars>>

\* The elements of a page, numbered in document order; 0 is the document.
Nodes == {1, 2, 3}

\* scrollHeight - clientHeight of an element: at the threshold of 40, just
\* above it, and well above it.
Extents == {40, 41, 90}

\* A review card (div[data-review-id]): visible, nothing to scroll.
CardElement ==
  [kind |-> "card", visible |-> TRUE, extent |-> 0,
   overflowX |-> "visible", overflowY |-> "visible"]

\* The elements a page is made of: review cards, dialogs ([role="dialog"])
\* and other div elements.
Elements ==
  {CardElement}
    \cup {[kind |-> "dialog", visible |-> v, extent |-> 0,
           overflowX |-> "visible", overflowY |-> "visible"] : v \in BOOLEAN}
    \cup [kind : {"box"}, visible : BOOLEAN, extent : Extents,
          overflowX : {"hidden", "auto"}, overflowY : {"hidden", "auto"}]

RECURSIVE UpFrom(_, _)
\* n and its ancestors up to the document (parentElement, line 242).
UpFrom(par, n) == IF n = 0 THEN {} ELSE {n} \cup UpFrom(par, par[n])

\* The trees over Nodes whose numbering is the document order: an element is
\* a child of the document, of the element before it, or of one of that
\* element's ancestors.
Trees ==
  {par \in [Nodes -> Nodes \cup {0}] :
     /\ par[1] = 0
     /\ \A n \in Nodes \ {1} : par[n] = 0 \/ par[n] \in UpFrom(par, n - 1)}

\* root.contains(n) (line 239): an element contains itself and what is
\* below it, the document contains every element.
Contains(par, r, n) == r = 0 \/ r \in UpFrom(par, n)

\* What root.querySelectorAll and el.querySelector look through: the
\* elements below r, r itself excluded.
Below(par, r, n) == n # r /\ Contains(par, r, n)

\* sv of lines 238, 264 and 288.
Sv(v) == v \in {"auto", "scroll"}

\* getComputedStyle(el).overflow: the shorthand is one keyword when both
\* axes have the same value, and a pair otherwise.
Overflow(e) == IF e.overflowX = e.overflowY THEN e.overflowY ELSE "x y"

\* The test of lines 241, 268 and 291.
PassesFilter(e) == e.extent > 40 /\ (Sv(e.overflowY) \/ Sv(Overflow(e)))

\* _is_scrollable, lines 210-216.
IsScrollable(e) == e.extent > 40 /\ e.overflowY \in {"auto", "scroll"}

\* The first element of a set in document order, 0 for an empty set.
FirstOf(S) == IF S = {} THEN 0 ELSE CHOOSE n \in S : \A m \in S : n <= m

\* page.locator('[role="dialog"]').first and document.querySelector of
\* lines 221, 261 and 285.
FirstDialog(d) == FirstOf({n \in Nodes : d[n].kind = "dialog"})

\* in_dlg, lines 220-224.
InDlg(d) == FirstDialog(d) # 0 /\ d[FirstDialog(d)].visible

\* Lines 227-228: the first review card, inside a dialog when in_dlg.
FirstCard(d, par) ==
  FirstOf({n \in Nodes :
             /\ d[n].kind = "card"
             /\ InDlg(d) => \E r \in Nodes : d[r].kind = "dialog" /\ Below(par, r, n)})

\* el.closest('[role="dialog"]') || document, line 237.
ClosestDialog(d, par, n) ==
  LET D == {r \in UpFrom(par, n) : d[r].kind = "dialog"}
  IN IF D = {} THEN 0 ELSE CHOOSE r \in D : \A q \in D : q <= r

\* Lines 236-246: from the card upward, the first element inside the root
\* that passes the test; 0 for null.
ScrollableAncestor(d, par, el) ==
  LET W == {n \in UpFrom(par, el) :
              Contains(par, ClosestDialog(d, par, el), n) /\ PassesFilter(d[n])}
  IN IF W = {} THEN 0 ELSE CHOOSE n \in W : \A m \in W : m <= n

\* An element that is taken to hold a card whatever is below it.
HasCardAlways(d, par, n) == TRUE

\* Line 270: el.querySelector('div[data-review-id]') !== null.
HasCard(d, par, n) == \E c \in Nodes : d[c].kind = "card" /\ Below(par, n, c)

\* Lines 272-273 and 293-294: the candidate of largest extent, the first
\* in document order among equals (the sort is stable); 0 for null.
Largest(d, S) ==
  FirstOf({n \in S : \A m \in S : d[m].extent <= d[n].extent})

\* Lines 265-271: the visible scrollable elements below the root that hold
\* a card.
CandidatesWithCards(d, par) ==
  {n \in Nodes : /\ Below(par, FirstDialog(d), n)
                 /\ d[n].visible
                 /\ PassesFilter(d[n])
                 /\ HasCard(d, par, n)}

\* Lines 289-292: the visible scrollable elements below the root.
CandidatesAny(d, par) ==
  {n \in Nodes : /\ Below(par, FirstDialog(d), n)
                 /\ d[n].visible
                 /\ PassesFilter(d[n])}

FindInit ==
  /\ fpc = "first"
  /\ dom \in [Nodes -> Elements]
  /\ parent \in Trees
  /\ first_h = 0
  /\ picked = 0
  /\ via = "none"
  /\ SessionIdle
  /\ PoolIdle
  /\ MainIdle
  /\ LoadIdle
  /\ CatIdle
  /\ DateIdle
  /\ OpenIdle
  /\ CardIdle

\* Lines 220-233: the handle of the first card, None when there is no card
\* or the wait for it raises.
LocateFirst ==
  /\ fpc = "first"
  /\ \E raises \in BOOLEAN :
       first_h' = IF raises THEN 0 ELSE FirstCard(dom, parent)
  /\ fpc' = IF first_h' # 0 THEN "ancestor" ELSE "largest"
  /\ UNCHANGED <<dom, parent, picked, via, outsideFind>>

\* One stage of the lookup: its element is returned when it exists and
\* _is_scrollable holds for it; an exception of the stage is swallowed and
\* the next stage follows (254-255, 278-279, 300-301), None after the last
\* one (303).
Stage(at, elem, then) ==
  /\ fpc = at
  /\ \E raises \in BOOLEAN :
       IF ~raises /\ elem # 0 /\ IsScrollable(dom[elem])
         THEN /\ picked' = elem
              /\ via' = at
              /\ fpc' = "done"
         ELSE /\ picked' = 0
              /\ via' = "none"
              /\ fpc' = then
  /\ UNCHANGED <<dom, parent, first_h, outsideFind>>

\* Lines 235-256: the scrollable ancestor of the first card.
WalkAncestors == Stage("ancestor", ScrollableAncestor(dom, parent, first_h), "largest")

\* Lines 258-279: the largest scrollable element with cards.
ScanWithCards == Stage("largest", Largest(dom, CandidatesWithCards(dom, parent)), "fallback")

\* Lines 281-303: the fallback, any large scrollable element.
ScanAny == Stage("fallback", Largest(dom, CandidatesAny(dom, parent)), "done")

FindNext ==
  \/ LocateFirst
  \/ WalkAncestors
  \/ ScanWithCards
  \/ ScanAny

FindSpec == FindInit /\ [][FindNext]_vars

\* The element passes the scrollable-extent threshold of _is_scrollable.
PassesThreshold(n) == dom[n].extent > 40 /\ dom[n].overflowY \in {"auto", "scroll"}

\* The element is an ancestor of a review card.
HostsCard(n) == \E c \in Nodes : dom[c].kind = "card" /\ c # n /\ n \in UpFrom(parent, c)

\* C31: every container the locator returns passes the scrollable-extent
\* threshold and hosts at least one review card, and when no such element
\* exists the locator returns null.
C31_ContainerHostsCard ==
  fpc = "done" =>
    /\ picked # 0 => (PassesThreshold(picked) /\ HostsCard(picked))
    /\ (\A n \in Nodes : ~(PassesThreshold(n) /\ HostsCard(n))) => picked = 0

\* C31, amended: every container the locator returns passes the
\* scrollable-extent threshold; one returned by the ancestor walk or by the
\* scan for the largest region with cards hosts a review card; the fallback
\* returns a visible region that no visible region below the root exceeds in
\* extent, with or without cards; and when no element passes the threshold
\* the locator returns null.
C31_ContainerPassesThreshold ==
  fpc = "done" =>
    /\ picked # 0 => PassesThreshold(picked)
    /\ (picked # 0 /\ via \in {"ancestor", "largest"}) => HostsCard(picked)
    /\ (picked # 0 /\ via = "fallback")
         => /\ dom[picked].visible
            /\ \A n \in Nodes :
                 (/\ n # FirstDialog(dom)
                  /\ Contains(parent, FirstDialog(dom), n)
                  /\ dom[n].visible
                  /\ PassesThreshold(n)) => dom[n].extent <= dom[picked].extent
    /\ (\A n \in Nodes : ~PassesThreshold(n)) => picked = 0

\* The fallback has returned a region without cards on a page that has a
\* card elsewhere.
C31_Witness ==
  /\ fpc = "done"
  /\ via = "fallback"
  /\ picked # 0
  /\ ~HostsCard(picked)
  /\ first_h # 0
  /\ \E n \in Nodes : n # picked /\ dom[n].kind = "box" /\ dom[n].extent = 41

====
